---- MODULE Spec2Model ----
(***************************************************************************)
(* Model of the page scheduling and execution logic of mrz_scanner.py      *)
(* (process_pdf, _process_single_page) and of the entry points that call   *)
(* it: the command line of mrz_scanner.py and the scan endpoints of        *)
(* api/app.py.                                                             *)
(*                                                                         *)
(* The main thread of process_pdf is a step machine (pc); the pages handed *)
(* to the ThreadPoolExecutor are futures with the states of                *)
(* concurrent.futures (PENDING, RUNNING, FINISHED, CANCELLED).             *)
(*                                                                         *)
(* process_image is a second step machine (img_pc) over the attempts of    *)
(* its cascade; the OCR and parse library answers each call with a result, *)
(* nothing, or an exception.                                               *)
(*                                                                         *)
(* The PDF libraries the module could import (backend) decide what         *)
(* get_pdf_info and convert_pdf_page_to_image do with a document they      *)
(* cannot open or a page they cannot render.                               *)
(***************************************************************************)
EXTENDS Integers, Sequences, FiniteSets, TLC

(* ---------------------------- bounds ----------------------------------- *)
MaxTotalPages == 4        \* largest page count of a document (Spec)
MaxMrzPages == 2          \* most pages of one document that carry an MRZ
MaxFaults == 1            \* most pages of one document that fail (SpecFault)
ExtraPages == 1           \* pages beyond the pool's threads (SpecPool)
SourcePages == 2          \* largest page count of a document (SpecSource)
MaxRasterPages == 3       \* largest page count of a document (SpecRaster)
MaxEdge == 6              \* longest edge of a rendered page (SpecResize)
MaxDimension == 3         \* largest MAX_IMAGE_DIMENSION (SpecResize)

(* ------------------------- program constants --------------------------- *)
PoolCap == 4              \* ThreadPoolExecutor(max_workers=min(len(...), 4))
ParallelMinPages == 3     \* parallel and len(remaining_pages) >= 3

\* Python's None for the optional integer arguments (max_pages, start_page).
None == 0 - 1000

Pages(n) == 1..n

(* ------------------------------ results -------------------------------- *)
\* What process_image / _process_single_page / process_pdf hand back:
\* None, a dict of MRZ fields, or the dict {"error": ...}.
NoneResult ==
    [kind |-> "None", document_number |-> FALSE, given_name |-> FALSE,
     surname |-> FALSE, raw_text |-> FALSE, page_number |-> 0,
     total_pages |-> 0]

MrzDict(doc_no, given, sur) ==
    [kind |-> "dict", document_number |-> doc_no, given_name |-> given,
     surname |-> sur, raw_text |-> FALSE, page_number |-> 0,
     total_pages |-> 0]

ErrorDict ==
    [kind |-> "error", document_number |-> FALSE, given_name |-> FALSE,
     surname |-> FALSE, raw_text |-> FALSE, page_number |-> 0,
     total_pages |-> 0]

\* An exception leaving a call, in place of its return value.
Raised ==
    [kind |-> "raise", document_number |-> FALSE, given_name |-> FALSE,
     surname |-> FALSE, raw_text |-> FALSE, page_number |-> 0,
     total_pages |-> 0]

\* passport_mrz_json['raw_text'] = ... (lines 185, 199, 219, 292)
WithRawText(result) == [result EXCEPT !.raw_text = TRUE]

\* Accepted with the stricter rule that asks for a surname.
AcceptedBySurname(result) ==
    /\ result.kind # "None"
    /\ result.surname

\* `result and (result.get("document_number") or result.get("given_name"))`
Accepted(result) ==
    /\ result.kind # "None"
    /\ (result.document_number \/ result.given_name)

VARIABLES
    \* the request and the document it names
    entry,               \* "cli", "scan_file", "scan_base64" or "scan_url"
    pdf_pages,           \* page count of the document
    mrz_std,             \* pages on which the standard-tier cascade accepts
    mrz_fast,            \* pages on which the fast-tier cascade accepts
    arg_max_pages,       \* max_pages as given (None when absent)
    arg_start_page,      \* start_page as given (None when absent)
    arg_parallel,        \* parallel as given
    arg_start_page_only, \* start_page_only as given (API only)
    page_fault,          \* per page: "ok", "no_image" (the page cannot be
                         \* rasterized) or "raises" (its processing raises)
    download,            \* /scan/url: how urlretrieve ends ("ok" or the
                         \* exception it raises); "ok" for the other entries
    temp_path,           \* the temporary file an endpoint stores the upload
                         \* in ("none", "on_disk", "removed")
    source,              \* "pdf" or "image": what the request names
    backend,             \* "pymupdf" (import fitz succeeded), "pdf2image"
                         \* (only pdf2image imported) or "none"
    doc_openable,        \* the PDF library can open the document
    img_page,            \* page _process_single_page is called on (SpecCascade)
    \* document handles of PyMuPDF
    doc,                 \* process_pdf's handle: "None", "open" or "closed"
    future_doc,          \* per page: the doc argument of its work item
                         \* ("unset" before it is submitted, "None", "main")
    own_handle,          \* per page: the handle its worker opens itself
                         \* ("none", "open", "closed")
    open_handles,        \* handles process_pdf has opened and not closed
    page_file,           \* per page: the temporary page raster of its
                         \* _process_single_page ("none", "on_disk", "removed")
    \* one call of get_pdf_info / convert_pdf_page_to_image (SpecRaster)
    conv_page,           \* convert_pdf_page_to_image's page_num
    doc_arg,             \* its doc argument: "None" or "handle"
    raster_ok,           \* the library can rasterize the page
    conv_ret,            \* what the call did: "image", "None" or "raise"
    info_ret,            \* what get_pdf_info did: a page count or InfoRaised
    \* the size policy of _process_single_page on one raster (SpecResize)
    img_width,           \* image.size of the rendered page
    img_height,
    max_image_dimension, \* MAX_IMAGE_DIMENSION as configured
    new_width,           \* size of the image handed on (0: none yet)
    new_height,
    resize_ret,          \* "unset", "kept", "resized" or "raise"
    \* locals of process_pdf
    pc,
    total_pages,
    pages_to_check,
    ceiling,             \* pages_to_check as computed on line 419
    start_page,
    remaining_pages,
    use_parallel,
    seq_i,               \* position of the sequential loop in remaining_pages
    cur_page,            \* page the main thread is processing (0: none)
    found_result,
    ret,                 \* value process_pdf is returning
    \* the worker pool
    max_workers,
    fstate,              \* future state per page
    fresult,             \* future result per page
    queue,               \* the executor's work queue
    cancel_i,            \* position of the cancel loop
    ac_installed,        \* as_completed has installed its waiter
    ac_unyielded,        \* futures already finished when as_completed began,
                         \* not yet yielded
    finished_futures,    \* the waiter's list, in finishing order
    yielded,             \* futures the as_completed loop has consumed
    \* observation
    attempts,            \* page attempts in the order they began
    first_success,       \* page of the first worker completion that succeeded
    early_success,       \* pages whose worker had succeeded before as_completed began
    status,              \* transport status once the request is answered
    \* process_image on one image
    img_caller,          \* "image": called on an image file; "page": called
                         \* by _process_single_page on a rendered page
    use_fast_psm,        \* process_image's use_fast_psm
    decodable,           \* Image.open(image_path) succeeds
    img_pc,              \* position in process_image
    rot_i,               \* position of the rotation loop in rotations_to_try
    fb_i,                \* position of the region loop of the direct OCR pass
    passport_mrz_json,   \* the accepted parse whose raw text is being fetched
    raw_len,             \* len(raw_text.strip()) of the text last recognized
                         \* (OcrRaised: the recognition raised)
    temp_files,          \* temporary files of process_image on disk
    img_log,             \* the attempts evaluated so far, in order
    last_parsed,         \* the parse the acceptance test was last applied to
    img_ret,             \* value process_image returns
    page_result          \* value _process_single_page returns

vars == <<entry, pdf_pages, mrz_std, mrz_fast, arg_max_pages, arg_start_page,
          arg_parallel, arg_start_page_only, page_fault, source, backend,
          doc_openable, img_page, download, temp_path, doc, future_doc, own_handle, open_handles,
          page_file,
          conv_page,
          doc_arg, raster_ok, conv_ret, info_ret, img_width, img_height,
          max_image_dimension, new_width, new_height, resize_ret,
          pc, total_pages, pages_to_check,
          ceiling, start_page, remaining_pages, use_parallel, seq_i, cur_page,
          found_result, ret, max_workers, fstate, fresult, queue,
          cancel_i, ac_installed, ac_unyielded, finished_futures,
          yielded, attempts, first_success, early_success, status,
          img_caller, use_fast_psm, decodable, img_pc, rot_i, fb_i,
          passport_mrz_json, raw_len, temp_files, img_log, last_parsed,
          img_ret, page_result>>

input_vars == <<entry, pdf_pages, mrz_std, mrz_fast, arg_max_pages,
                arg_start_page, arg_parallel, arg_start_page_only,
                page_fault, source, backend, doc_openable, img_page, download>>

request_vars == <<input_vars, temp_path>>

handle_vars == <<doc, future_doc, own_handle, open_handles, page_file>>

resize_vars == <<img_width, img_height, max_image_dimension, new_width,
                 new_height, resize_ret>>

raster_vars == <<conv_page, doc_arg, raster_ok, conv_ret, info_ret,
                 resize_vars>>

image_vars == <<img_caller, use_fast_psm, decodable, img_pc, rot_i, fb_i,
                passport_mrz_json, raw_len, temp_files, img_log, last_parsed,
                img_ret, page_result>>

pool_vars == <<max_workers, fstate, fresult, queue, cancel_i,
               ac_installed, ac_unyielded, finished_futures,
               yielded, first_success, early_success>>

(* ------------------------- pure helpers -------------------------------- *)
Min(a, b) == IF a <= b THEN a ELSE b

\* Python truthiness of an optional integer: `if max_pages`.
Truthy(x) == x # None /\ x # 0

\* PagesToCheck without the max_pages limit.
PagesToCheckUnlimited(total, max_pages) == total

\* Line 419: pages_to_check = min(total_pages, max_pages) if max_pages
\* else total_pages
PagesToCheck(total, max_pages) ==
    IF Truthy(max_pages) THEN Min(total, max_pages) ELSE total

\* ValidateStartPage without the check against max_pages of lines 430-433.
ValidateStartPageTotalOnly(sp, total, to_check) ==
    IF sp # None
    THEN IF sp < 1 \/ sp > total THEN None ELSE sp
    ELSE None

\* Lines 425-433: an out-of-range start_page is replaced by None.
ValidateStartPage(sp, total, to_check) ==
    IF sp # None
    THEN IF sp < 1 \/ sp > total THEN None
         ELSE IF sp > to_check THEN None
         ELSE sp
    ELSE None

\* range(a, b + 1) as a list
RECURSIVE RangeSeq(_, _)
RangeSeq(a, b) == IF a > b THEN <<>> ELSE <<a>> \o RangeSeq(a + 1, b)

\* [x for x in s if x != p]
RECURSIVE Without(_, _)
Without(s, p) ==
    IF s = <<>> THEN <<>>
    ELSE IF Head(s) = p THEN Without(Tail(s), p)
         ELSE <<Head(s)>> \o Without(Tail(s), p)

\* RemainingAfterStartPage without the `if p != start_page` filter.
RemainingWithStartPage(to_check, sp) == RangeSeq(1, to_check)

\* Line 458: [p for p in range(1, pages_to_check + 1) if p != start_page]
RemainingAfterStartPage(to_check, sp) == Without(RangeSeq(1, to_check), sp)

\* SmartOrder without the page-2-first rule: plain ascending order.
SmartOrderAscending(total, to_check) == RangeSeq(1, to_check)

\* Lines 476-485: page 2, then 1, then 3, 4, 5...; a single page: [1]
SmartOrder(total, to_check) ==
    IF total >= 2 /\ to_check >= 2
    THEN <<2, 1>> \o RangeSeq(3, to_check)
    ELSE <<1>>

\* Line 496: use_parallel = parallel and len(remaining_pages) >= 3
UseParallel(parallel, remaining) ==
    parallel /\ Len(remaining) >= ParallelMinPages

\* MaxWorkers without the cap: one thread per page.
MaxWorkersUncapped(remaining) == Len(remaining)

\* Line 505: max_workers=min(len(remaining_pages), 4)
MaxWorkers(remaining) == Min(Len(remaining), PoolCap)

SeqToSet(s) == {s[i] : i \in 1..Len(s)}

(* ------------------------- the PDF backends ---------------------------- *)
\* Lines 13-23: `import fitz` decides which names the module binds.  When it
\* succeeds, convert_from_path and pdfinfo_from_path are never bound; when it
\* fails they are pdf2image's functions or, pdf2image missing too, None.
Backends == {"pymupdf", "pdf2image", "none"}

\* Line 16 / 18: PYMUPDF_AVAILABLE
PymupdfAvailable(bk) == bk = "pymupdf"

\* Reading pdfinfo_from_path / convert_from_path (lines 60, 119): "unbound"
\* raises NameError, "function" is truthy, "None" is falsy.
FallbackName(bk) ==
    IF bk = "pymupdf" THEN "unbound"
    ELSE IF bk = "pdf2image" THEN "function"
    ELSE "None"

\* get_pdf_info left by an exception.
InfoRaised == 0 - 2

\* get_pdf_info (lines 40-67): the page count from PyMuPDF; if that raises
\* (caught, line 56), from pdf2image (line 60, outside any try); if that
\* raises (caught) or is missing, 1.
GetPdfInfo(bk, openable, pages) ==
    IF PymupdfAvailable(bk) /\ openable THEN pages
    ELSE IF FallbackName(bk) = "unbound" THEN InfoRaised
    ELSE IF FallbackName(bk) = "function" /\ openable THEN pages
    ELSE 1

\* convert_pdf_page_to_image (lines 70-127): the set of things the call can
\* do, "image", "None" or "raise".  With PyMuPDF a page past the end gives
\* None (line 92); a page below 1 indexes the document from its end
\* (line 98), which gives a page or raises; every exception of the PyMuPDF
\* branch is caught (line 108) and falls to line 119.  pdf2image answers a
\* page outside the document with an empty list and its exceptions are
\* caught (line 124).
ConvertPdfPageToImage(bk, openable, pages, n, handle, rasterizes) ==
    LET fallback ==
            IF FallbackName(bk) = "unbound" THEN {"raise"}
            ELSE IF /\ FallbackName(bk) = "function"
                    /\ openable /\ n \in 1..pages /\ rasterizes
            THEN {"image"}
            ELSE {"None"}
    IN IF PymupdfAvailable(bk)
       THEN IF handle = "None" /\ ~openable THEN fallback
            ELSE IF n > pages THEN {"None"}
            ELSE IF n < 1 THEN (IF rasterizes THEN {"image"} ELSE {}) \cup fallback
            ELSE IF rasterizes THEN {"image"}
            ELSE fallback
       ELSE fallback

\* The call of line 332 on a page of the document; for a page of the
\* document the outcome is the same with the caller's handle and without.
PageImage(n) ==
    ConvertPdfPageToImage(backend, doc_openable, pdf_pages, n, "None",
                          page_fault[n] # "no_image")

\* doc.close() on process_pdf's handle, where there is one
\* (`if doc is not None`, lines 450, 526, 541, 553, 563, 576).
Closed(d) == IF d = "open" THEN "closed" ELSE d

\* The number of handles process_pdf has opened and not closed, after a
\* step that closes the one `doc` refers to, where it does.
HandlesAfterClose(d, closed, n) ==
    IF d = "open" /\ closed = "closed" THEN n - 1 ELSE n

\* ProcessSinglePage without the `except Exception` of line 386: an
\* exception of the page's processing leaves the function.
ProcessSinglePageUncaught(page_num, total, use_fast_dpi) ==
    LET found == IF use_fast_dpi THEN page_num \in mrz_fast
                 ELSE page_num \in mrz_std
        result == IF page_num \in Pages(pdf_pages) /\ found
                  THEN WithRawText(MrzDict(TRUE, TRUE, TRUE)) ELSE NoneResult
    IN IF page_fault[page_num] = "raises" THEN Raised
       ELSE IF "raise" \in PageImage(page_num) THEN Raised
       ELSE IF PageImage(page_num) # {"image"} THEN NoneResult
       ELSE IF Accepted(result)
       THEN [result EXCEPT !.page_number = page_num, !.total_pages = total]
       ELSE NoneResult

\* ProcessSinglePage without lines 371-372: the accepted result is returned
\* as process_image gave it.
ProcessSinglePageUnstamped(page_num, total, use_fast_dpi) ==
    LET found == IF use_fast_dpi THEN page_num \in mrz_fast
                 ELSE page_num \in mrz_std
        result == IF page_num \in Pages(pdf_pages) /\ found
                  THEN WithRawText(MrzDict(TRUE, TRUE, TRUE)) ELSE NoneResult
    IN IF page_fault[page_num] = "raises" THEN NoneResult
       ELSE IF PageImage(page_num) # {"image"} THEN NoneResult
       ELSE IF Accepted(result) THEN result
       ELSE NoneResult

\* _process_single_page (lines 322-389) on a page of the document: the page
\* is rendered at the tier's resolution (no image: None, line 337), run
\* through process_image, and an accepted result is stamped with page_number
\* and total_pages.  Every exception inside is caught (line 386) and gives
\* None.
ProcessSinglePage(page_num, total, use_fast_dpi) ==
    LET found == IF use_fast_dpi THEN page_num \in mrz_fast
                 ELSE page_num \in mrz_std
        result == IF page_num \in Pages(pdf_pages) /\ found
                  THEN WithRawText(MrzDict(TRUE, TRUE, TRUE)) ELSE NoneResult
    IN IF page_fault[page_num] = "raises" THEN NoneResult
       ELSE IF PageImage(page_num) # {"image"} THEN NoneResult
       ELSE IF Accepted(result)
       THEN [result EXCEPT !.page_number = page_num, !.total_pages = total]
       ELSE NoneResult

Attempt(page, fast, by) == [page |-> page, fast |-> fast, by |-> by]

(* ------------------------------ Init ----------------------------------- *)
Entries == {"cli", "scan_file", "scan_base64", "scan_url"}

\* max_pages as given: absent, or a limit below, at or above the page count
\* of the documents (the longest document is scanned whole with no limit).
MaxPagesArgs == {None} \cup (1..(MaxTotalPages - 1))
StartPageArgs == {None} \cup (0..MaxTotalPages)

\* Every page number a document of one of the specifications can have.
AllPages ==
    Pages(CHOOSE m \in {MaxTotalPages, PoolCap + ExtraPages, SourcePages,
                        MaxRasterPages} :
            \A n \in {MaxTotalPages, PoolCap + ExtraPages, SourcePages,
                       MaxRasterPages} : n <= m)
NoFutures == [p \in AllPages |-> "NONE"]
NoResults == [p \in AllPages |-> NoneResult]
NoFaults == [p \in AllPages |-> "ok"]

\* No image is being processed.
ImageIdle ==
    /\ img_caller = "image"
    /\ use_fast_psm = FALSE
    /\ decodable = TRUE
    /\ img_pc = "idle"
    /\ rot_i = 0
    /\ fb_i = 0
    /\ passport_mrz_json = NoneResult
    /\ raw_len = 0
    /\ temp_files = {}
    /\ img_log = <<>>
    /\ last_parsed = NoneResult
    /\ img_ret = NoneResult
    /\ page_result = NoneResult

\* No document is being scanned.
ScanIdle ==
    /\ total_pages = 0
    /\ pages_to_check = 0
    /\ ceiling = 0
    /\ start_page = None
    /\ remaining_pages = <<>>
    /\ use_parallel = FALSE
    /\ seq_i = 0
    /\ cur_page = 0
    /\ found_result = NoneResult
    /\ ret = NoneResult
    /\ max_workers = 0
    /\ fstate = NoFutures
    /\ fresult = NoResults
    /\ queue = <<>>
    /\ cancel_i = 0
    /\ ac_installed = FALSE
    /\ ac_unyielded = {}
    /\ finished_futures = <<>>
    /\ yielded = {}
    /\ attempts = <<>>
    /\ first_success = 0
    /\ early_success = {}
    /\ status = "none"
    /\ doc = "None"
    /\ open_handles = 0
    /\ temp_path = "none"
    /\ page_file = [p \in AllPages |-> "none"]
    /\ future_doc = [p \in AllPages |-> "unset"]
    /\ own_handle = [p \in AllPages |-> "none"]

\* A PDF request where PyMuPDF is installed and opens the document.
PlainDocument ==
    /\ source = "pdf"
    /\ backend = "pymupdf"
    /\ doc_openable = TRUE
    /\ img_page = 0
    /\ download = "ok"

\* No raster is being sized.
ResizeIdle ==
    /\ img_width = 1
    /\ img_height = 1
    /\ max_image_dimension = 1
    /\ new_width = 0
    /\ new_height = 0
    /\ resize_ret = "unset"

\* get_pdf_info and convert_pdf_page_to_image are not being called alone.
RasterIdle ==
    /\ conv_page = 0
    /\ doc_arg = "None"
    /\ raster_ok = TRUE
    /\ conv_ret = "unset"
    /\ info_ret = None
    /\ ResizeIdle

InitLocals ==
    /\ pc = "request"
    /\ ImageIdle
    /\ ScanIdle
    /\ RasterIdle

Init ==
    /\ entry \in Entries
    /\ pdf_pages \in 1..MaxTotalPages
    /\ mrz_std \in {s \in SUBSET Pages(pdf_pages) : Cardinality(s) <= MaxMrzPages}
    /\ arg_max_pages \in MaxPagesArgs
    /\ arg_start_page \in StartPageArgs
    /\ mrz_fast \in SUBSET ({arg_start_page} \cap Pages(pdf_pages))
    /\ arg_parallel \in BOOLEAN
    /\ arg_start_page_only \in (IF entry = "cli" THEN {FALSE} ELSE BOOLEAN)
    /\ page_fault = NoFaults
    /\ PlainDocument
    /\ InitLocals

(* --------------------------- entry points ------------------------------ *)
\* Line 392: def process_pdf(pdf_path, show_progress=False, max_pages=None,
\*                           parallel=True, start_page=None)
ProcessPdfParams ==
    {"pdf_path", "show_progress", "max_pages", "parallel", "start_page"}

\* api/app.py lines 356, 529, 697: process_pdf(temp_path,
\*   show_progress=False, max_pages=max_pages, start_page=start_page,
\*   start_page_only=start_page_only)
ApiCallKeywords ==
    {"pdf_path", "show_progress", "max_pages", "start_page", "start_page_only"}

\* mrz_scanner.py line 627: process_pdf(input_file_path, show_progress,
\*   max_pages, parallel=not args.no_parallel, start_page=args.start_page)
CliCallKeywords ==
    {"pdf_path", "show_progress", "max_pages", "parallel", "start_page"}

\* A call binds only if every keyword names a parameter; otherwise Python
\* raises TypeError before the body of the function runs.
CallBinds(keywords, params) == keywords \subseteq params

\* mrz_scanner.py lines 645-667: the status of the CLI's JSON output.
CliStatus(final_result) ==
    IF final_result.kind # "None" /\ final_result.kind = "error" THEN "error"
    ELSE IF final_result.kind # "None" THEN "success"
    ELSE "failure"

\* api/app.py lines 366, 539, 704: `"surname" in result`.  The dicts that
\* process_image and process_pdf return, other than {"error": ...}, are
\* parses of FastMRZ, which carry the keys of all fields, populated or not.
HasSurnameKey(result) == result.kind = "dict"

\* api/app.py lines 366-381, 539-554, 704-719: the status of the response.
ApiStatus(result) ==
    IF result.kind # "None" /\ HasSurnameKey(result) THEN "success"
    ELSE IF result.kind # "None" /\ result.kind = "error" THEN "error"
    ELSE "failure"

\* The status the entry point answers with for what the core returned.
StatusOf(e, result) ==
    IF e = "cli" THEN CliStatus(result) ELSE ApiStatus(result)

\* api/app.py lines 670-691: what urllib.request.urlretrieve does: it
\* stores the file, or raises HTTPError, URLError or another exception.
DownloadOutcomes == {"ok", "HTTPError", "URLError", "Exception"}

\* api/app.py lines 672-691: the download of /scan/url fails and the
\* endpoint answers with status error (HTTP 400).
DownloadFails == entry = "scan_url" /\ download # "ok"

\* api/app.py lines 383-386, 556-559, 720-723: the `finally` of an endpoint
\* removes the temporary file; the command line has none.
AfterCleanup(e, path) == IF e = "cli" THEN path ELSE "removed"

\* mrz_scanner.py lines 618-634: the CLI hands a PDF to process_pdf.
CliRequest ==
    /\ pc = "request"
    /\ source = "pdf"
    /\ entry = "cli"
    /\ IF CallBinds(CliCallKeywords, ProcessPdfParams)
       THEN pc' = "get_info" /\ status' = status
       ELSE pc' = "done" /\ status' = "error"
    /\ UNCHANGED <<request_vars, raster_vars, image_vars, handle_vars,
                   pool_vars, total_pages, pages_to_check,
                   ceiling, start_page, remaining_pages, use_parallel, seq_i,
                   cur_page, found_result, ret, attempts>>

\* ApiRequest without the handler's `except Exception`: an exception of
\* the call leaves the endpoint unanswered.
ApiRequestUnhandled ==
    /\ pc = "request"
    /\ source = "pdf"
    /\ entry # "cli"
    /\ IF DownloadFails
       THEN pc' = "done" /\ status' = "error" /\ temp_path' = "on_disk"
       ELSE IF CallBinds(ApiCallKeywords, ProcessPdfParams)
       THEN pc' = "get_info" /\ status' = status /\ temp_path' = "on_disk"
       ELSE /\ pc' = "done" /\ status' = "fault"
            /\ temp_path' = AfterCleanup(entry, "on_disk")
    /\ UNCHANGED <<input_vars, raster_vars, image_vars, handle_vars,
                   pool_vars, total_pages, pages_to_check,
                   ceiling, start_page, remaining_pages, use_parallel, seq_i,
                   cur_page, found_result, ret, attempts>>

\* api/app.py lines 352-393, 525-566, 693-730: an endpoint hands a PDF to
\* process_pdf; an exception of the call is answered by the handler's
\* `except Exception` with status error (HTTP 500).
ApiRequest ==
    /\ pc = "request"
    /\ source = "pdf"
    /\ entry # "cli"
    /\ IF DownloadFails
       THEN pc' = "done" /\ status' = "error" /\ temp_path' = "on_disk"
       ELSE IF CallBinds(ApiCallKeywords, ProcessPdfParams)
       THEN pc' = "get_info" /\ status' = status /\ temp_path' = "on_disk"
       ELSE /\ pc' = "done" /\ status' = "error"
            /\ temp_path' = AfterCleanup(entry, "on_disk")
    /\ UNCHANGED <<input_vars, raster_vars, image_vars, handle_vars,
                   pool_vars, total_pages, pages_to_check,
                   ceiling, start_page, remaining_pages, use_parallel, seq_i,
                   cur_page, found_result, ret, attempts>>

(* --------------------------- process_pdf ------------------------------- *)
\* Lines 412-433: page count, page ceiling, validation of start_page.
\* An exception of get_pdf_info is answered by lines 570-573.
GetInfo ==
    /\ pc = "get_info"
    /\ LET info == GetPdfInfo(backend, doc_openable, pdf_pages)
       IN IF info = InfoRaised
          THEN /\ ret' = ErrorDict
               /\ pc' = "return"
               /\ UNCHANGED <<total_pages, pages_to_check, ceiling, start_page>>
          ELSE /\ total_pages' = info
               /\ pages_to_check' = PagesToCheck(info, arg_max_pages)
               /\ ceiling' = pages_to_check'
               /\ start_page' = ValidateStartPage(arg_start_page, total_pages',
                                                  pages_to_check')
               /\ pc' = IF start_page' # None THEN "priority" ELSE "order"
               /\ UNCHANGED ret
    /\ UNCHANGED <<request_vars, raster_vars, image_vars, handle_vars,
                   pool_vars, remaining_pages, use_parallel,
                   seq_i, cur_page, found_result, attempts, status>>

\* PriorityBegin with the start page handed over without use_fast_dpi, at
\* the standard tier like every other page.
PriorityBeginStandardTier ==
    /\ pc = "priority"
    /\ cur_page' = start_page
    /\ attempts' = Append(attempts, Attempt(start_page, FALSE, "main"))
    /\ pc' = "priority_run"
    /\ doc' = IF PymupdfAvailable(backend) /\ doc_openable THEN "open"
              ELSE "None"
    /\ open_handles' = IF doc' = "open" THEN open_handles + 1
                     ELSE open_handles
    /\ page_file' = IF pc' = "priority_run"
                    THEN [page_file EXCEPT ![cur_page'] = "on_disk"]
                    ELSE page_file
    /\ UNCHANGED <<request_vars, raster_vars, image_vars, future_doc, own_handle,
                   pool_vars, total_pages, pages_to_check,
                   ceiling, start_page, remaining_pages, use_parallel, seq_i,
                   found_result, ret, status>>

\* Lines 436-448: the start page is handed to _process_single_page with
\* use_fast_dpi=True, on the main thread.
PriorityBegin ==
    /\ pc = "priority"
    /\ cur_page' = start_page
    /\ attempts' = Append(attempts, Attempt(start_page, TRUE, "main"))
    /\ pc' = "priority_run"
    /\ doc' = IF PymupdfAvailable(backend) /\ doc_openable THEN "open"
              ELSE "None"
    /\ open_handles' = IF doc' = "open" THEN open_handles + 1
                     ELSE open_handles
    /\ page_file' = IF pc' = "priority_run"
                    THEN [page_file EXCEPT ![cur_page'] = "on_disk"]
                    ELSE page_file
    /\ UNCHANGED <<request_vars, raster_vars, image_vars, future_doc, own_handle,
                   pool_vars, total_pages, pages_to_check,
                   ceiling, start_page, remaining_pages, use_parallel, seq_i,
                   found_result, ret, status>>

\* PriorityEnd without the early return of lines 449-455: the remaining
\* pages are scheduled whatever the start page gave.
PriorityEndNoReturn ==
    /\ pc = "priority_run"
    /\ LET rest == RemainingAfterStartPage(pages_to_check, start_page)
       IN /\ remaining_pages' = rest
          /\ IF rest = <<>>
             THEN /\ ret' = ProcessSinglePage(start_page, total_pages, TRUE)
                  /\ pc' = "return"
                  /\ UNCHANGED pages_to_check
             ELSE /\ pages_to_check' = Len(rest)
                  /\ pc' = "mode"
                  /\ UNCHANGED ret
    /\ cur_page' = 0
    /\ doc' = IF pc' = "return" THEN Closed(doc) ELSE doc
    /\ open_handles' = HandlesAfterClose(doc, doc', open_handles)
    /\ page_file' = [page_file EXCEPT ![cur_page] = "removed"]
    /\ UNCHANGED <<request_vars, raster_vars, image_vars, future_doc, own_handle,
                   pool_vars, total_pages, ceiling, start_page,
                   use_parallel, seq_i, found_result, attempts, status>>

\* Lines 448-473: the start page's result; on failure the remaining pages.
\* An exception of the call is answered by lines 570-573 with {"error": ...}.
PriorityEnd ==
    /\ pc = "priority_run"
    /\ LET result == ProcessSinglePage(start_page, total_pages, TRUE)
           rest == RemainingAfterStartPage(pages_to_check, start_page)
       IN IF result.kind = "raise"
          THEN /\ ret' = ErrorDict
               /\ pc' = "return"
               /\ UNCHANGED <<remaining_pages, pages_to_check>>
          ELSE IF Accepted(result)
          THEN /\ ret' = result
               /\ pc' = "return"
               /\ UNCHANGED <<remaining_pages, pages_to_check>>
          ELSE /\ remaining_pages' = rest
               /\ IF rest = <<>>
                  THEN /\ ret' = NoneResult
                       /\ pc' = "return"
                       /\ UNCHANGED pages_to_check
                  ELSE /\ pages_to_check' = Len(rest)
                       /\ pc' = "mode"
                       /\ UNCHANGED ret
    /\ cur_page' = 0
    /\ doc' = IF pc' = "return" THEN Closed(doc) ELSE doc
    /\ open_handles' = HandlesAfterClose(doc, doc', open_handles)
    /\ page_file' = [page_file EXCEPT ![cur_page] = "removed"]
    /\ UNCHANGED <<request_vars, raster_vars, image_vars, future_doc, own_handle,
                   pool_vars, total_pages, ceiling, start_page,
                   use_parallel, seq_i, found_result, attempts, status>>

\* Lines 474-485: no start page, the smart page order.
DefaultOrder ==
    /\ pc = "order"
    /\ remaining_pages' = SmartOrder(total_pages, pages_to_check)
    /\ pc' = "mode"
    /\ UNCHANGED <<request_vars, raster_vars, image_vars, handle_vars,
                   pool_vars, total_pages, pages_to_check,
                   ceiling, start_page, use_parallel, seq_i, cur_page,
                   found_result, ret, attempts, status>>

\* ChooseMode opening the document for the sequential pages without the
\* `if doc is None` of line 488: the handle of the priority page is replaced
\* by a second one and never closed.
ChooseModeReopens ==
    /\ pc = "mode"
    /\ use_parallel' = UseParallel(arg_parallel, remaining_pages)
    /\ IF use_parallel'
       THEN /\ max_workers' = MaxWorkers(remaining_pages)
            /\ pc' = "submit"
            /\ UNCHANGED seq_i
       ELSE /\ seq_i' = 1
            /\ pc' = "seq"
            /\ UNCHANGED max_workers
    /\ LET opens == PymupdfAvailable(backend) /\ ~arg_parallel
                        /\ doc_openable
       IN /\ doc' = IF opens THEN "open" ELSE doc
          /\ open_handles' = IF opens THEN open_handles + 1
                             ELSE open_handles
    /\ UNCHANGED <<request_vars, raster_vars, image_vars, future_doc, own_handle, page_file,
                   fstate, fresult, queue, cancel_i,
                   ac_installed, ac_unyielded, finished_futures,
                   yielded, first_success, early_success, total_pages, pages_to_check,
                   ceiling, start_page, remaining_pages, cur_page,
                   found_result, ret, attempts, status>>

\* Lines 495-510: the execution mode, and the pool when it is parallel.
ChooseMode ==
    /\ pc = "mode"
    /\ use_parallel' = UseParallel(arg_parallel, remaining_pages)
    /\ IF use_parallel'
       THEN /\ max_workers' = MaxWorkers(remaining_pages)
            /\ pc' = "submit"
            /\ UNCHANGED seq_i
       ELSE /\ seq_i' = 1
            /\ pc' = "seq"
            /\ UNCHANGED max_workers
    /\ LET opens == PymupdfAvailable(backend) /\ ~arg_parallel
                        /\ doc = "None" /\ doc_openable
       IN /\ doc' = IF opens THEN "open" ELSE doc
          /\ open_handles' = IF opens THEN open_handles + 1
                             ELSE open_handles
    /\ UNCHANGED <<request_vars, raster_vars, image_vars, future_doc, own_handle, page_file,
                   fstate, fresult, queue, cancel_i,
                   ac_installed, ac_unyielded, finished_futures,
                   yielded, first_success, early_success, total_pages, pages_to_check,
                   ceiling, start_page, remaining_pages, cur_page,
                   found_result, ret, attempts, status>>

\* SeqBegin with the loop ending one page early.
SeqBeginStopsEarly ==
    /\ pc = "seq"
    /\ IF seq_i < Len(remaining_pages)
       THEN /\ cur_page' = remaining_pages[seq_i]
            /\ attempts' = Append(attempts,
                                  Attempt(remaining_pages[seq_i], FALSE, "main"))
            /\ pc' = "seq_run"
            /\ UNCHANGED ret
       ELSE /\ ret' = NoneResult
            /\ pc' = "return"
            /\ UNCHANGED <<cur_page, attempts>>
    /\ doc' = IF pc' = "return" THEN Closed(doc) ELSE doc
    /\ open_handles' = HandlesAfterClose(doc, doc', open_handles)
    /\ page_file' = IF pc' = "seq_run"
                    THEN [page_file EXCEPT ![cur_page'] = "on_disk"]
                    ELSE page_file
    /\ UNCHANGED <<request_vars, raster_vars, image_vars, future_doc, own_handle,
                   pool_vars, total_pages, pages_to_check,
                   ceiling, start_page, remaining_pages, use_parallel, seq_i,
                   found_result, status>>

\* Lines 550-551: the sequential loop hands its next page to
\* _process_single_page (standard tier); lines 560-568 when none is left.
SeqBegin ==
    /\ pc = "seq"
    /\ IF seq_i <= Len(remaining_pages)
       THEN /\ cur_page' = remaining_pages[seq_i]
            /\ attempts' = Append(attempts,
                                  Attempt(remaining_pages[seq_i], FALSE, "main"))
            /\ pc' = "seq_run"
            /\ UNCHANGED ret
       ELSE /\ ret' = NoneResult
            /\ pc' = "return"
            /\ UNCHANGED <<cur_page, attempts>>
    /\ doc' = IF pc' = "return" THEN Closed(doc) ELSE doc
    /\ open_handles' = HandlesAfterClose(doc, doc', open_handles)
    /\ page_file' = IF pc' = "seq_run"
                    THEN [page_file EXCEPT ![cur_page'] = "on_disk"]
                    ELSE page_file
    /\ UNCHANGED <<request_vars, raster_vars, image_vars, future_doc, own_handle,
                   pool_vars, total_pages, pages_to_check,
                   ceiling, start_page, remaining_pages, use_parallel, seq_i,
                   found_result, status>>

\* SeqEnd without the early return of lines 552-558: an accepted result is
\* kept and the loop goes on to the next page.
SeqEndKeepsGoing ==
    /\ pc = "seq_run"
    /\ LET result == ProcessSinglePage(cur_page, total_pages, FALSE)
       IN ret' = IF Accepted(result) THEN result ELSE ret
    /\ seq_i' = seq_i + 1
    /\ pc' = "seq"
    /\ cur_page' = 0
    /\ doc' = IF pc' = "return" THEN Closed(doc) ELSE doc
    /\ open_handles' = HandlesAfterClose(doc, doc', open_handles)
    /\ page_file' = [page_file EXCEPT ![cur_page] = "removed"]
    /\ UNCHANGED <<request_vars, raster_vars, image_vars, future_doc, own_handle,
                   pool_vars, total_pages, pages_to_check,
                   ceiling, start_page, remaining_pages, use_parallel,
                   found_result, attempts, status>>

\* Lines 551-558: the page's result; the first accepted one is returned.
\* An exception of the call is answered by lines 570-573 with {"error": ...}.
SeqEnd ==
    /\ pc = "seq_run"
    /\ LET result == ProcessSinglePage(cur_page, total_pages, FALSE)
       IN IF result.kind = "raise"
          THEN /\ ret' = ErrorDict
               /\ pc' = "return"
               /\ UNCHANGED seq_i
          ELSE IF Accepted(result)
          THEN /\ ret' = result
               /\ pc' = "return"
               /\ UNCHANGED seq_i
          ELSE /\ seq_i' = seq_i + 1
               /\ pc' = "seq"
               /\ UNCHANGED ret
    /\ cur_page' = 0
    /\ doc' = IF pc' = "return" THEN Closed(doc) ELSE doc
    /\ open_handles' = HandlesAfterClose(doc, doc', open_handles)
    /\ page_file' = [page_file EXCEPT ![cur_page] = "removed"]
    /\ UNCHANGED <<request_vars, raster_vars, image_vars, future_doc, own_handle,
                   pool_vars, total_pages, pages_to_check,
                   ceiling, start_page, remaining_pages, use_parallel,
                   found_result, attempts, status>>

(* ---------------------------- worker pool ------------------------------ *)
Running == {p \in DOMAIN fstate : fstate[p] = "RUNNING"}

PoolAlive == pc \in {"as_completed", "iterate", "cancel", "exit_with"}

\* The work items of the queue a pool thread would still run: a thread that
\* takes a cancelled item drops it and takes the next.
RECURSIVE Runnable(_)
Runnable(q) ==
    IF q = <<>> THEN <<>>
    ELSE IF fstate[Head(q)] = "CANCELLED" THEN Runnable(Tail(q))
         ELSE q

\* Submit with process_pdf's own handle given to every work item.
SubmitSharesHandle ==
    /\ pc = "submit"
    /\ fstate' = [p \in DOMAIN fstate |->
                    IF p \in SeqToSet(remaining_pages) THEN "PENDING"
                    ELSE fstate[p]]
    /\ queue' = remaining_pages
    /\ pc' = "as_completed"
    /\ future_doc' = [p \in DOMAIN future_doc |->
                        IF p \in SeqToSet(remaining_pages)
                        THEN (IF doc = "open" THEN "main" ELSE "None")
                        ELSE future_doc[p]]
    /\ UNCHANGED <<request_vars, raster_vars, image_vars, doc, open_handles, own_handle, page_file,
                   max_workers, fresult, cancel_i, ac_installed,
                   ac_unyielded, finished_futures, yielded,
                   first_success, early_success, total_pages, pages_to_check, ceiling,
                   start_page, remaining_pages, use_parallel, seq_i, cur_page,
                   found_result, ret, attempts, status>>

\* Lines 505-510: the pool, and executor.submit(_process_single_page,
\* pdf_path, page_num, total_pages, show_progress, None) for each remaining
\* page, in order.  (A submission changes nothing a running worker reads, so
\* the loop is one step.)
Submit ==
    /\ pc = "submit"
    /\ fstate' = [p \in DOMAIN fstate |->
                    IF p \in SeqToSet(remaining_pages) THEN "PENDING"
                    ELSE fstate[p]]
    /\ queue' = remaining_pages
    /\ pc' = "as_completed"
    /\ future_doc' = [p \in DOMAIN future_doc |->
                        IF p \in SeqToSet(remaining_pages) THEN "None"
                        ELSE future_doc[p]]
    /\ UNCHANGED <<request_vars, raster_vars, image_vars, doc, open_handles, own_handle, page_file,
                   max_workers, fresult, cancel_i, ac_installed,
                   ac_unyielded, finished_futures, yielded,
                   first_success, early_success, total_pages, pages_to_check, ceiling,
                   start_page, remaining_pages, use_parallel, seq_i, cur_page,
                   found_result, ret, attempts, status>>

\* A pool thread takes the next work item that was not cancelled (line 505:
\* at most max_workers threads) and starts _process_single_page on it at the
\* standard tier.  Given no handle, convert_pdf_page_to_image opens one
\* (lines 87-89) and closes it before it returns (lines 93, 106, 110).
WorkerStart ==
    /\ PoolAlive
    /\ Runnable(queue) # <<>>
    /\ Cardinality(Running) < max_workers
    /\ LET page_num == Head(Runnable(queue))
       IN /\ fstate' = [fstate EXCEPT ![page_num] = "RUNNING"]
          /\ attempts' = Append(attempts, Attempt(page_num, FALSE, "pool"))
    /\ queue' = Tail(Runnable(queue))
    /\ LET page_num == Head(Runnable(queue))
       IN own_handle' = [own_handle EXCEPT ![page_num] =
                           IF PymupdfAvailable(backend)
                              /\ future_doc[page_num] = "None"
                           THEN "open" ELSE "none"]
    /\ page_file' = [page_file EXCEPT ![Head(Runnable(queue))] = "on_disk"]
    /\ UNCHANGED <<request_vars, raster_vars, image_vars, doc, open_handles, future_doc,
                   max_workers, fresult, cancel_i,
                   ac_installed, ac_unyielded, finished_futures,
                   yielded, first_success, early_success, pc, total_pages, pages_to_check,
                   ceiling, start_page, remaining_pages, use_parallel, seq_i,
                   cur_page, found_result, ret, status>>

\* A pool thread finishes _process_single_page: the future holds the result
\* and, while the as_completed loop waits, is appended to the waiter's list
\* (the list is not read once the loop is left).
WorkerFinish ==
    /\ PoolAlive
    /\ \E page_num \in Running :
        LET result == ProcessSinglePage(page_num, total_pages, FALSE)
        IN /\ fstate' = [fstate EXCEPT ![page_num] = "FINISHED"]
           /\ fresult' = [fresult EXCEPT ![page_num] = result]
           /\ finished_futures' = IF ac_installed /\ pc = "iterate"
                                  THEN Append(finished_futures, page_num)
                                  ELSE finished_futures
           /\ first_success' = IF first_success = 0 /\ Accepted(result)
                               THEN page_num ELSE first_success
    /\ own_handle' = [p \in DOMAIN own_handle |->
                        IF fstate[p] = "RUNNING" /\ fstate'[p] = "FINISHED"
                        THEN Closed(own_handle[p]) ELSE own_handle[p]]
    /\ page_file' = [p \in DOMAIN page_file |->
                       IF fstate[p] = "RUNNING" /\ fstate'[p] = "FINISHED"
                       THEN "removed" ELSE page_file[p]]
    /\ UNCHANGED <<request_vars, raster_vars, image_vars, doc, open_handles, future_doc,
                   max_workers, queue, cancel_i, early_success,
                   ac_installed, ac_unyielded, yielded, pc,
                   total_pages, pages_to_check, ceiling, start_page,
                   remaining_pages, use_parallel, seq_i, cur_page,
                   found_result, ret, attempts, status>>

\* Line 514: as_completed(future_to_page) begins: the futures that have
\* already finished are set aside to be yielded first, the others report to
\* the waiter as they finish.
AsCompleted ==
    /\ pc = "as_completed"
    /\ ac_installed' = TRUE
    /\ ac_unyielded' = {p \in DOMAIN fstate : fstate[p] = "FINISHED"}
    /\ early_success' = {p \in ac_unyielded' : Accepted(fresult[p])}
    /\ pc' = "iterate"
    /\ UNCHANGED <<request_vars, raster_vars, image_vars, handle_vars,
                   max_workers, fstate, fresult, queue,
                   cancel_i, finished_futures, yielded, first_success,
                   total_pages, pages_to_check, ceiling, start_page,
                   remaining_pages, use_parallel, seq_i, cur_page,
                   found_result, ret, attempts, status>>

\* The future as_completed yields next: one of those set aside at the start
\* (in no particular order), otherwise the head of the waiter's list.
NextYield ==
    IF ac_unyielded # {} THEN ac_unyielded
    ELSE IF finished_futures # <<>> THEN {Head(finished_futures)}
    ELSE {}

\* YieldStep without leaving the loop at the first accepted result: every
\* accepted result overwrites found_result, and the loop is left once all
\* futures were yielded.
YieldStepLastWins ==
    /\ pc = "iterate"
    /\ \E page_num \in NextYield :
        /\ yielded' = yielded \cup {page_num}
        /\ IF page_num \in ac_unyielded
           THEN /\ ac_unyielded' = ac_unyielded \ {page_num}
                /\ UNCHANGED finished_futures
           ELSE /\ finished_futures' = Tail(finished_futures)
                /\ UNCHANGED ac_unyielded
        /\ found_result' = IF Accepted(fresult[page_num])
                           THEN fresult[page_num] ELSE found_result
        /\ IF yielded' = SeqToSet(remaining_pages) /\ Accepted(found_result')
           THEN cancel_i' = 1 /\ pc' = "cancel"
           ELSE UNCHANGED <<cancel_i, pc>>
    /\ UNCHANGED <<request_vars, raster_vars, image_vars, handle_vars,
                   max_workers, fstate, fresult, queue,
                   ac_installed, first_success, early_success, total_pages,
                   pages_to_check, ceiling, start_page, remaining_pages,
                   use_parallel, seq_i, cur_page, ret, attempts, status>>

\* Lines 514-536: the loop body on the yielded future.  An accepted result
\* becomes found_result and the loop is left for the cancel loop; a future
\* that holds an exception raises it from result() and lines 533-536 go on
\* to the next future.
YieldStep ==
    /\ pc = "iterate"
    /\ \E page_num \in NextYield :
        /\ yielded' = yielded \cup {page_num}
        /\ IF page_num \in ac_unyielded
           THEN /\ ac_unyielded' = ac_unyielded \ {page_num}
                /\ UNCHANGED finished_futures
           ELSE /\ finished_futures' = Tail(finished_futures)
                /\ UNCHANGED ac_unyielded
        /\ IF Accepted(fresult[page_num])
           THEN /\ found_result' = fresult[page_num]
                /\ cancel_i' = 1
                /\ pc' = "cancel"
           ELSE UNCHANGED <<found_result, cancel_i, pc>>
    /\ UNCHANGED <<request_vars, raster_vars, image_vars, handle_vars,
                   max_workers, fstate, fresult, queue,
                   ac_installed, first_success, early_success, total_pages,
                   pages_to_check, ceiling, start_page, remaining_pages,
                   use_parallel, seq_i, cur_page, ret, attempts, status>>

\* IterateEnd with the loop left after the first future that was yielded.
IterateEndAfterFirst ==
    /\ pc = "iterate"
    /\ yielded # {}
    /\ ret' = NoneResult
    /\ pc' = "exit_with"
    /\ UNCHANGED <<request_vars, raster_vars, image_vars, handle_vars,
                   pool_vars, total_pages, pages_to_check,
                   ceiling, start_page, remaining_pages, use_parallel, seq_i,
                   cur_page, found_result, attempts, status>>

\* Lines 538-546: every future was yielded and none was accepted.
IterateEnd ==
    /\ pc = "iterate"
    /\ yielded = SeqToSet(remaining_pages)
    /\ ret' = NoneResult
    /\ pc' = "exit_with"
    /\ UNCHANGED <<request_vars, raster_vars, image_vars, handle_vars,
                   pool_vars, total_pages, pages_to_check,
                   ceiling, start_page, remaining_pages, use_parallel, seq_i,
                   cur_page, found_result, attempts, status>>

\* Positions of the cancel loop, from i on, whose future is another one
\* and has not started: the only ones on which cancel() does anything.
Cancellable(i) ==
    {j \in i..Len(remaining_pages) :
        /\ remaining_pages[j] # found_result.page_number
        /\ fstate[remaining_pages[j]] = "PENDING"}

SetMin(S) == CHOOSE x \in S : \A y \in S : x <= y

\* CancelStep with the loop left by `break` in place of `return
\* found_result`: control falls through to the `return None` of line 546.
CancelStepFallsThrough ==
    /\ pc = "cancel"
    /\ IF Cancellable(cancel_i) # {}
       THEN /\ LET j == SetMin(Cancellable(cancel_i))
               IN /\ fstate' = [fstate EXCEPT ![remaining_pages[j]] = "CANCELLED"]
                  /\ cancel_i' = j + 1
            /\ UNCHANGED <<ret, pc>>
       ELSE /\ ret' = NoneResult
            /\ pc' = "exit_with"
            /\ UNCHANGED <<fstate, cancel_i>>
    /\ UNCHANGED <<request_vars, raster_vars, image_vars, handle_vars,
                   max_workers, fresult, queue,
                   ac_installed, ac_unyielded, finished_futures,
                   yielded, first_success, early_success, total_pages, pages_to_check,
                   ceiling, start_page, remaining_pages, use_parallel, seq_i,
                   cur_page, found_result, attempts, status>>

\* Lines 524-532: remaining_future.cancel() for every other future, in
\* submission order; only a future that has not started is cancelled.  Then
\* `return found_result`.
CancelStep ==
    /\ pc = "cancel"
    /\ IF Cancellable(cancel_i) # {}
       THEN /\ LET j == SetMin(Cancellable(cancel_i))
               IN /\ fstate' = [fstate EXCEPT ![remaining_pages[j]] = "CANCELLED"]
                  /\ cancel_i' = j + 1
            /\ UNCHANGED <<ret, pc>>
       ELSE /\ ret' = found_result
            /\ pc' = "exit_with"
            /\ UNCHANGED <<fstate, cancel_i>>
    /\ doc' = IF pc' = "exit_with" THEN Closed(doc) ELSE doc
    /\ open_handles' = HandlesAfterClose(doc, doc', open_handles)
    /\ UNCHANGED <<request_vars, raster_vars, image_vars, future_doc, own_handle, page_file,
                   max_workers, fresult, queue,
                   ac_installed, ac_unyielded, finished_futures,
                   yielded, first_success, early_success, total_pages, pages_to_check,
                   ceiling, start_page, remaining_pages, use_parallel, seq_i,
                   cur_page, found_result, attempts, status>>

\* ExecutorExit as shutdown(wait=False): the block is left while work items
\* are still running.
ExecutorExitNoWait ==
    /\ pc = "exit_with"
    /\ pc' = "return"
    /\ doc' = Closed(doc)
    /\ open_handles' = HandlesAfterClose(doc, doc', open_handles)
    /\ UNCHANGED <<request_vars, raster_vars, image_vars, future_doc, own_handle, page_file,
                   pool_vars, total_pages, pages_to_check,
                   ceiling, start_page, remaining_pages, use_parallel, seq_i,
                   cur_page, found_result, ret, attempts, status>>

\* Line 505: leaving the `with ThreadPoolExecutor(...)` block runs
\* shutdown(wait=True): the pool threads are joined, so control leaves the
\* block only when no work item is running and none is left to run.
ExecutorExit ==
    /\ pc = "exit_with"
    /\ Running = {}
    /\ Runnable(queue) = <<>>
    /\ pc' = "return"
    /\ doc' = Closed(doc)
    /\ open_handles' = HandlesAfterClose(doc, doc', open_handles)
    /\ UNCHANGED <<request_vars, raster_vars, image_vars, future_doc, own_handle, page_file,
                   pool_vars, total_pages, pages_to_check,
                   ceiling, start_page, remaining_pages, use_parallel, seq_i,
                   cur_page, found_result, ret, attempts, status>>

\* process_pdf returns; mrz_scanner.py lines 645-667 print the status, the
\* endpoints of api/app.py answer with theirs.
Return ==
    /\ pc = "return"
    /\ status' = StatusOf(entry, ret)
    /\ pc' = "done"
    /\ temp_path' = AfterCleanup(entry, temp_path)
    /\ UNCHANGED <<input_vars, raster_vars, image_vars, handle_vars,
                   pool_vars, total_pages, pages_to_check,
                   ceiling, start_page, remaining_pages, use_parallel, seq_i,
                   cur_page, found_result, ret, attempts>>

Next ==
    \/ CliRequest
    \/ ApiRequest
    \/ GetInfo
    \/ PriorityBegin
    \/ PriorityEnd
    \/ DefaultOrder
    \/ ChooseMode
    \/ SeqBegin
    \/ SeqEnd
    \/ Submit
    \/ WorkerStart
    \/ WorkerFinish
    \/ AsCompleted
    \/ YieldStep
    \/ IterateEnd
    \/ CancelStep
    \/ ExecutorExit
    \/ Return

Spec == Init /\ [][Next]_vars

(* A document with more pages than the pool has threads, scanned whole or  *)
(* up to a page limit around the threshold of the parallel mode, without a *)
(* start page: the executor of lines 495-568 on its own.                   *)
InitPool ==
    /\ entry = "cli"
    /\ pdf_pages \in (PoolCap + 1)..(PoolCap + ExtraPages)
    /\ mrz_std \in {s \in SUBSET Pages(pdf_pages) : Cardinality(s) <= MaxMrzPages}
    /\ arg_max_pages \in {None} \cup (1..ParallelMinPages)
    /\ arg_start_page = None
    /\ mrz_fast = {}
    /\ arg_parallel \in BOOLEAN
    /\ arg_start_page_only = FALSE
    /\ page_fault = NoFaults
    /\ PlainDocument
    /\ InitLocals

NextPool ==
    \/ CliRequest
    \/ GetInfo
    \/ DefaultOrder
    \/ ChooseMode
    \/ SeqBegin
    \/ SeqEnd
    \/ Submit
    \/ WorkerStart
    \/ WorkerFinish
    \/ AsCompleted
    \/ YieldStep
    \/ IterateEnd
    \/ CancelStep
    \/ ExecutorExit
    \/ Return

SpecPool == InitPool /\ [][NextPool]_vars

(* A document of up to as many pages as the parallel mode needs, some of   *)
(* whose pages cannot be rasterized or raise while they are processed.     *)
FaultKinds == {"no_image", "raises"}

InitFault ==
    /\ entry = "cli"
    /\ pdf_pages \in 1..ParallelMinPages
    /\ mrz_std \in {s \in SUBSET Pages(pdf_pages) : Cardinality(s) <= MaxMrzPages}
    /\ arg_max_pages = None
    /\ arg_start_page \in {None} \cup Pages(pdf_pages)
    /\ mrz_fast \in SUBSET ({arg_start_page} \cap Pages(pdf_pages))
    /\ arg_parallel \in BOOLEAN
    /\ arg_start_page_only = FALSE
    /\ page_fault \in {f \in [AllPages -> {"ok"} \cup FaultKinds] :
                         /\ \A p \in AllPages \ Pages(pdf_pages) : f[p] = "ok"
                         /\ Cardinality({p \in AllPages : f[p] # "ok"}) <= MaxFaults}
    /\ PlainDocument
    /\ InitLocals

NextFault ==
    \/ CliRequest
    \/ GetInfo
    \/ PriorityBegin
    \/ PriorityEnd
    \/ DefaultOrder
    \/ ChooseMode
    \/ SeqBegin
    \/ SeqEnd
    \/ Submit
    \/ WorkerStart
    \/ WorkerFinish
    \/ AsCompleted
    \/ YieldStep
    \/ IterateEnd
    \/ CancelStep
    \/ ExecutorExit
    \/ Return

SpecFault == InitFault /\ [][NextFault]_vars

(* A document with as many pages as the pool has threads or more, scanned  *)
(* whole, with at most one MRZ page and no start page; every thread that   *)
(* can take a step eventually takes one.                                   *)
InitLive ==
    /\ entry = "cli"
    /\ pdf_pages \in PoolCap..MaxTotalPages
    /\ mrz_std \in {s \in SUBSET Pages(pdf_pages) : Cardinality(s) <= 1}
    /\ arg_max_pages \in {None, pdf_pages + 1}
    /\ arg_start_page = None
    /\ mrz_fast = {}
    /\ arg_parallel \in BOOLEAN
    /\ arg_start_page_only = FALSE
    /\ page_fault = NoFaults
    /\ PlainDocument
    /\ InitLocals

SpecLive == InitLive /\ [][NextPool]_vars /\ WF_vars(NextPool)


(* ======================================================================= *)
(* process_image: the cascade of attempts on one image                     *)
(* ======================================================================= *)
\* Lines 193, 280: a recognized text is parsed when len(text.strip()) > 10.
MinTextLen == 10

\* Rotations with the order of fast mode kept for the standard mode too.
RotationsAlwaysFast(fast) == <<0, 0 - 90>>

\* Lines 155-158: rotations_to_try
Rotations(fast) == IF fast THEN <<0, 0 - 90>> ELSE <<0, 0 - 90, 90>>

\* Lines 244-246, 262-267: the direct OCR pass rotates by 90 and reads the
\* bottom 30% and then the full image.
OcrRotation == 90
OcrRegions == <<"bottom_30_rotated", "full_rotated">>

\* What FastMRZ.get_details may give for a parse: None, a dict with some of
\* the fields filled, or an exception.
ParseResults ==
    {NoneResult, Raised,
     MrzDict(FALSE, FALSE, FALSE), MrzDict(FALSE, FALSE, TRUE),
     MrzDict(TRUE, FALSE, FALSE), MrzDict(FALSE, TRUE, FALSE),
     MrzDict(TRUE, TRUE, TRUE)}

\* What a text recognition may give: a text, by the length of its stripped
\* form, or an exception.
OcrRaised == 0 - 1
TextOutcomes == {OcrRaised, 0, MinTextLen, MinTextLen + 1}

\* How an evaluated parse ended.
Outcome(r) ==
    IF r.kind = "raise" THEN "raised"
    ELSE IF Accepted(r) THEN "accepted"
    ELSE "rejected"

CascadeAttempt(angle, region, mode, out) ==
    [angle |-> angle, region |-> region, mode |-> mode, out |-> out]

scan_vars == <<request_vars, raster_vars, handle_vars, pool_vars, pc,
               total_pages, pages_to_check, ceiling, start_page, remaining_pages, use_parallel, seq_i,
               cur_page, found_result, ret, attempts>>

\* Lines 143-158: the image is opened; a failure here is answered by the
\* outer `except` of line 302 with {"error": ...}.
ImgOpen ==
    /\ img_pc = "open"
    /\ IF decodable
       THEN /\ rot_i' = 1
            /\ img_pc' = "rotation"
            /\ UNCHANGED img_ret
       ELSE /\ img_ret' = ErrorDict
            /\ img_pc' = "returned"
            /\ UNCHANGED rot_i
    /\ UNCHANGED <<scan_vars, last_parsed, status, img_caller, use_fast_psm, decodable,
                   fb_i, passport_mrz_json, raw_len, temp_files, img_log,
                   page_result>>

\* Lines 160-186, 225-232: the image is rotated, saved to a temporary file
\* and parsed.  An exception of any of these leaves the rotation: the
\* `finally` of line 225 removes the file and the `except` of line 228 goes
\* on to the next rotation.
FullParse ==
    /\ img_pc = "rotation"
    /\ rot_i <= Len(Rotations(use_fast_psm))
    /\ \E r \in ParseResults :
        /\ last_parsed' = r
        /\ img_log' = Append(img_log,
               CascadeAttempt(Rotations(use_fast_psm)[rot_i], "full",
                              "image_parse", Outcome(r)))
        /\ IF r.kind = "raise"
           THEN /\ rot_i' = rot_i + 1
                /\ UNCHANGED <<img_pc, temp_files, passport_mrz_json>>
           ELSE IF Accepted(r)
           THEN /\ passport_mrz_json' = r
                /\ temp_files' = temp_files \cup {"full"}
                /\ img_pc' = "full_raw"
                /\ UNCHANGED rot_i
           ELSE /\ temp_files' = temp_files \cup {"full"}
                /\ img_pc' = "text_ocr"
                /\ UNCHANGED <<rot_i, passport_mrz_json>>
    /\ UNCHANGED <<scan_vars, status, img_caller, use_fast_psm, decodable,
                   fb_i, raw_len, img_ret, page_result>>

\* Lines 184-186: the raw text of the accepted parse is fetched and the
\* result returned; an exception of the fetch leaves the rotation like any
\* other (lines 225-232).
FullRaw ==
    /\ img_pc = "full_raw"
    /\ temp_files' = temp_files \ {"full"}
    /\ \E ok \in BOOLEAN :
        IF ok
        THEN /\ img_ret' = WithRawText(passport_mrz_json)
             /\ img_pc' = "returned"
             /\ UNCHANGED <<rot_i, passport_mrz_json>>
        ELSE /\ passport_mrz_json' = NoneResult
             /\ rot_i' = rot_i + 1
             /\ img_pc' = "rotation"
             /\ UNCHANGED img_ret
    /\ UNCHANGED <<scan_vars, last_parsed, status, img_caller, use_fast_psm, decodable,
                   fb_i, raw_len, img_log, page_result>>

\* Lines 202-206 and 225-227: after the text re-parse, rotation 0 goes on to
\* the bottom region; the other rotations end here.
AfterTextParse ==
    IF Rotations(use_fast_psm)[rot_i] = 0
    THEN /\ img_pc' = "crop"
         /\ UNCHANGED <<rot_i, temp_files>>
    ELSE /\ temp_files' = temp_files \ {"full"}
         /\ rot_i' = rot_i + 1
         /\ img_pc' = "rotation"

\* TextOcr with the test `>= 10` in place of `> 10`.
TextOcrAtLeast ==
    /\ img_pc = "text_ocr"
    /\ \E n \in TextOutcomes :
        IF n # OcrRaised /\ n >= MinTextLen
        THEN /\ raw_len' = n
             /\ img_pc' = "text_parse"
             /\ UNCHANGED <<rot_i, temp_files, img_log>>
        ELSE /\ img_log' = Append(img_log,
                    CascadeAttempt(Rotations(use_fast_psm)[rot_i], "full",
                                   "text_parse",
                                   IF n = OcrRaised THEN "raised" ELSE "no_text"))
             /\ AfterTextParse
             /\ raw_len' = n
    /\ UNCHANGED <<scan_vars, last_parsed, status, img_caller, use_fast_psm, decodable,
                   fb_i, passport_mrz_json, img_ret, page_result>>

\* Lines 190-193, 201-202: the raw text of the image is recognized; it is
\* parsed only if it is long enough, and an exception is passed over.
TextOcr ==
    /\ img_pc = "text_ocr"
    /\ \E n \in TextOutcomes :
        IF n # OcrRaised /\ n > MinTextLen
        THEN /\ raw_len' = n
             /\ img_pc' = "text_parse"
             /\ UNCHANGED <<rot_i, temp_files, img_log>>
        ELSE /\ img_log' = Append(img_log,
                    CascadeAttempt(Rotations(use_fast_psm)[rot_i], "full",
                                   "text_parse",
                                   IF n = OcrRaised THEN "raised" ELSE "no_text"))
             /\ AfterTextParse
             /\ raw_len' = n
    /\ UNCHANGED <<scan_vars, last_parsed, status, img_caller, use_fast_psm, decodable,
                   fb_i, passport_mrz_json, img_ret, page_result>>

\* Lines 194-202: the cleaned text is parsed; an accepted result is
\* returned, an exception is passed over.
TextParse ==
    /\ img_pc = "text_parse"
    /\ \E r \in ParseResults :
        /\ last_parsed' = r
        /\ img_log' = Append(img_log,
               CascadeAttempt(Rotations(use_fast_psm)[rot_i], "full",
                              "text_parse", Outcome(r)))
        /\ IF Accepted(r)
           THEN /\ img_ret' = WithRawText(r)
                /\ temp_files' = temp_files \ {"full"}
                /\ img_pc' = "returned"
                /\ UNCHANGED rot_i
           ELSE /\ AfterTextParse
                /\ UNCHANGED img_ret
    /\ UNCHANGED <<scan_vars, status, img_caller, use_fast_psm, decodable,
                   fb_i, passport_mrz_json, raw_len, page_result>>

\* Lines 206-227: rotation 0 only: the bottom 30% is cropped, saved to a
\* second temporary file and parsed.  An exception leaves the rotation; the
\* second file is removed by the `finally` of line 221 only if the exception
\* came from inside the `try` of line 213 (a failing save of line 211 leaves
\* it behind).
CropParse ==
    /\ img_pc = "crop"
    /\ \E r \in ParseResults, save_failed \in BOOLEAN :
        /\ save_failed => r.kind = "raise"
        /\ last_parsed' = r
        /\ img_log' = Append(img_log,
               CascadeAttempt(0, "bottom_30", "image_parse", Outcome(r)))
        /\ IF r.kind = "raise"
           THEN /\ temp_files' = (temp_files \ {"full"})
                                   \cup (IF save_failed THEN {"bottom"} ELSE {})
                /\ rot_i' = rot_i + 1
                /\ img_pc' = "rotation"
                /\ UNCHANGED passport_mrz_json
           ELSE IF Accepted(r)
           THEN /\ passport_mrz_json' = r
                /\ temp_files' = temp_files \cup {"bottom"}
                /\ img_pc' = "crop_raw"
                /\ UNCHANGED rot_i
           ELSE /\ temp_files' = temp_files \ {"full"}
                /\ rot_i' = rot_i + 1
                /\ img_pc' = "rotation"
                /\ UNCHANGED passport_mrz_json
    /\ UNCHANGED <<scan_vars, status, img_caller, use_fast_psm, decodable,
                   fb_i, raw_len, img_ret, page_result>>

\* Lines 218-227: the raw text of the accepted bottom region is fetched and
\* the result returned; an exception of the fetch leaves the rotation.
CropRaw ==
    /\ img_pc = "crop_raw"
    /\ temp_files' = temp_files \ {"full", "bottom"}
    /\ \E ok \in BOOLEAN :
        IF ok
        THEN /\ img_ret' = WithRawText(passport_mrz_json)
             /\ img_pc' = "returned"
             /\ UNCHANGED <<rot_i, passport_mrz_json>>
        ELSE /\ passport_mrz_json' = NoneResult
             /\ rot_i' = rot_i + 1
             /\ img_pc' = "rotation"
             /\ UNCHANGED img_ret
    /\ UNCHANGED <<scan_vars, last_parsed, status, img_caller, use_fast_psm, decodable,
                   fb_i, raw_len, img_log, page_result>>

\* DirectOcrBegin without the `try` of line 238: a failure to reopen the
\* image reaches the outer `except` of line 302.
DirectOcrBeginUncaught ==
    /\ img_pc = "rotation"
    /\ rot_i > Len(Rotations(use_fast_psm))
    /\ \E ok \in BOOLEAN :
        IF ok
        THEN /\ fb_i' = 1
             /\ img_pc' = "direct_ocr"
             /\ UNCHANGED img_ret
        ELSE /\ img_ret' = ErrorDict
             /\ img_pc' = "returned"
             /\ UNCHANGED fb_i
    /\ UNCHANGED <<scan_vars, last_parsed, status, img_caller, use_fast_psm,
                   decodable, rot_i, passport_mrz_json, raw_len, temp_files,
                   img_log, page_result>>

\* Lines 238-270, 296-300: after the last rotation the image is opened
\* again, rotated and cut into the regions of the direct OCR pass; an
\* exception here ends the pass and process_image returns None.
DirectOcrBegin ==
    /\ img_pc = "rotation"
    /\ rot_i > Len(Rotations(use_fast_psm))
    /\ \E ok \in BOOLEAN :
        IF ok
        THEN /\ fb_i' = 1
             /\ img_pc' = "direct_ocr"
             /\ UNCHANGED img_ret
        ELSE /\ img_ret' = NoneResult
             /\ img_pc' = "returned"
             /\ UNCHANGED fb_i
    /\ UNCHANGED <<scan_vars, last_parsed, status, img_caller, use_fast_psm, decodable,
                   rot_i, passport_mrz_json, raw_len, temp_files, img_log,
                   page_result>>

\* Lines 272-280, 294-295: the next region is recognized with the MRZ
\* language; a text that is too short and an exception both go on to the
\* next region.
DirectOcr ==
    /\ img_pc = "direct_ocr"
    /\ fb_i <= Len(OcrRegions)
    /\ \E n \in TextOutcomes :
        IF n # OcrRaised /\ n > MinTextLen
        THEN /\ raw_len' = n
             /\ img_pc' = "direct_parse"
             /\ UNCHANGED <<fb_i, img_log>>
        ELSE /\ img_log' = Append(img_log,
                    CascadeAttempt(OcrRotation, OcrRegions[fb_i], "direct_ocr",
                                   IF n = OcrRaised THEN "raised" ELSE "no_text"))
             /\ fb_i' = fb_i + 1
             /\ raw_len' = n
             /\ UNCHANGED img_pc
    /\ UNCHANGED <<scan_vars, last_parsed, status, img_caller, use_fast_psm, decodable,
                   rot_i, passport_mrz_json, temp_files, img_ret, page_result>>

\* Lines 281-295: the recognized text is parsed; an accepted result is
\* returned, otherwise the next region follows.
DirectParse ==
    /\ img_pc = "direct_parse"
    /\ \E r \in ParseResults :
        /\ last_parsed' = r
        /\ img_log' = Append(img_log,
               CascadeAttempt(OcrRotation, OcrRegions[fb_i], "direct_ocr",
                              Outcome(r)))
        /\ IF Accepted(r)
           THEN /\ img_ret' = WithRawText(r)
                /\ img_pc' = "returned"
                /\ UNCHANGED fb_i
           ELSE /\ fb_i' = fb_i + 1
                /\ img_pc' = "direct_ocr"
                /\ UNCHANGED img_ret
    /\ UNCHANGED <<scan_vars, status, img_caller, use_fast_psm, decodable,
                   rot_i, passport_mrz_json, raw_len, temp_files, page_result>>

\* Line 300: every region was tried: return None.
DirectOcrEnd ==
    /\ img_pc = "direct_ocr"
    /\ fb_i > Len(OcrRegions)
    /\ img_ret' = NoneResult
    /\ img_pc' = "returned"
    /\ UNCHANGED <<scan_vars, last_parsed, status, img_caller, use_fast_psm, decodable,
                   rot_i, fb_i, passport_mrz_json, raw_len, temp_files,
                   img_log, page_result>>

\* Line 359: `if page_num == 3`
InspectPage == 3

\* Lines 322-364: _process_single_page renders the page, saves it to a
\* temporary file and, for page 3, to an inspection file as well.  No image
\* gives None (line 337); an exception of a save leaves through the
\* `finally` of line 381, which removes the temporary file, and the `except`
\* of line 386, which gives None.
PageBegin ==
    /\ img_pc = "page_begin"
    /\ img_caller = "page"
    /\ \E step \in {"no_image", "save_raises", "inspect_raises", "saved"} :
        /\ step = "inspect_raises" => img_page = InspectPage
        /\ IF step = "saved"
           THEN /\ temp_files' = {"page"} \cup
                       (IF img_page = InspectPage THEN {"inspection"} ELSE {})
                /\ img_pc' = "open"
                /\ UNCHANGED page_result
           ELSE /\ page_result' = NoneResult
                /\ img_pc' = "no_page"
                /\ UNCHANGED temp_files
    /\ UNCHANGED <<scan_vars, last_parsed, status, img_caller, use_fast_psm,
                   decodable, rot_i, fb_i, passport_mrz_json, raw_len,
                   img_log, img_ret>>

\* Lines 367-384: _process_single_page keeps process_image's result only if
\* it is accepted, and stamps it with the page; the `finally` of line 381
\* removes the temporary page file.
PageCheck ==
    /\ img_pc = "returned"
    /\ img_caller = "page"
    /\ page_result' = IF Accepted(img_ret)
                      THEN [img_ret EXCEPT !.page_number = img_page,
                                           !.total_pages = pdf_pages]
                      ELSE NoneResult
    /\ temp_files' = temp_files \ {"page"}
    /\ img_pc' = "done"
    /\ UNCHANGED <<scan_vars, last_parsed, status, img_caller, use_fast_psm, decodable,
                   rot_i, fb_i, passport_mrz_json, raw_len,
                   img_log, img_ret>>

\* mrz_scanner.py lines 628-667: the command line, given an image file,
\* prints the status of process_image's result; api/app.py lines 358-381,
\* 531-554, 699-719: so do the endpoints.
ImageDone ==
    /\ img_pc = "returned"
    /\ img_caller = "image"
    /\ status' = StatusOf(entry, img_ret)
    /\ img_pc' = "done"
    /\ temp_path' = AfterCleanup(entry, temp_path)
    /\ UNCHANGED <<input_vars, raster_vars, handle_vars, pool_vars, pc,
                   total_pages, pages_to_check, ceiling, start_page,
                   remaining_pages, use_parallel, seq_i, cur_page,
                   found_result, ret, attempts,
                   last_parsed, img_caller, use_fast_psm, decodable,
                   rot_i, fb_i, passport_mrz_json, raw_len, temp_files,
                   img_log, img_ret, page_result>>

\* mrz_scanner.py line 631, api/app.py lines 358, 531, 699: a request that
\* names anything but a .pdf is handed to process_image; an endpoint stores
\* the upload in a temporary file first (api/app.py lines 346-350, 519-523,
\* 670-691).
ImageRequest ==
    /\ pc = "request"
    /\ source = "image"
    /\ IF DownloadFails
       THEN /\ pc' = "done"
            /\ status' = "error"
            /\ temp_path' = "on_disk"
            /\ UNCHANGED img_pc
       ELSE /\ pc' = "image"
            /\ img_pc' = "open"
            /\ temp_path' = IF entry = "cli" THEN temp_path ELSE "on_disk"
            /\ UNCHANGED status
    /\ UNCHANGED <<input_vars, raster_vars, handle_vars, pool_vars,
                   total_pages, pages_to_check, ceiling, start_page,
                   remaining_pages, use_parallel, seq_i, cur_page,
                   found_result, ret, attempts, img_caller,
                   use_fast_psm, decodable, rot_i, fb_i, passport_mrz_json,
                   raw_len, temp_files, img_log, last_parsed, img_ret,
                   page_result>>

\* One image, given to process_image by the command line or, as a rendered
\* page, by _process_single_page (which sets use_fast_psm for a start page).
InitCascade ==
    /\ entry = "cli"
    /\ img_caller \in {"image", "page"}
    /\ source = (IF img_caller = "image" THEN "image" ELSE "pdf")
    /\ backend = "pymupdf"
    /\ doc_openable = TRUE
    /\ img_page \in (IF img_caller = "image" THEN {0} ELSE {1, InspectPage})
    /\ pdf_pages = (IF img_caller = "image" THEN 1 ELSE InspectPage)
    /\ download = "ok"
    /\ mrz_std = {}
    /\ mrz_fast = {}
    /\ arg_max_pages = None
    /\ arg_start_page = None
    /\ arg_parallel = FALSE
    /\ arg_start_page_only = FALSE
    /\ page_fault = NoFaults
    /\ pc = "image"
    /\ ScanIdle
    /\ RasterIdle
    /\ use_fast_psm \in (IF img_caller = "image" THEN {FALSE} ELSE BOOLEAN)
    /\ decodable \in BOOLEAN
    /\ img_pc = (IF img_caller = "image" THEN "open" ELSE "page_begin")
    /\ rot_i = 0
    /\ fb_i = 0
    /\ passport_mrz_json = NoneResult
    /\ raw_len = 0
    /\ temp_files = {}
    /\ img_log = <<>>
    /\ last_parsed = NoneResult
    /\ img_ret = NoneResult
    /\ page_result = NoneResult

NextCascade ==
    \/ PageBegin
    \/ ImgOpen
    \/ FullParse
    \/ FullRaw
    \/ TextOcr
    \/ TextParse
    \/ CropParse
    \/ CropRaw
    \/ DirectOcrBegin
    \/ DirectOcr
    \/ DirectParse
    \/ DirectOcrEnd
    \/ PageCheck
    \/ ImageDone

SpecCascade == InitCascade /\ [][NextCascade]_vars

(* A request of any entry point that names an image or a short PDF, which   *)
(* the installed libraries may be unable to open.                          *)
InitSource ==
    /\ entry \in Entries
    /\ source \in {"pdf", "image"}
    /\ download \in (IF entry = "scan_url" THEN DownloadOutcomes ELSE {"ok"})
    /\ backend \in Backends
    /\ doc_openable \in (IF source = "pdf" THEN BOOLEAN ELSE {TRUE})
    /\ decodable \in (IF source = "image" THEN BOOLEAN ELSE {TRUE})
    /\ pdf_pages \in (IF source = "pdf" THEN 1..SourcePages ELSE {1})
    /\ mrz_std \in (IF source = "pdf" THEN SUBSET Pages(pdf_pages) ELSE {{}})
    /\ arg_max_pages = None
    /\ arg_start_page \in (IF source = "pdf" THEN {None, 1} ELSE {None})
    /\ mrz_fast \in SUBSET ({arg_start_page} \cap Pages(pdf_pages))
    /\ arg_parallel = FALSE
    /\ arg_start_page_only = FALSE
    /\ page_fault = NoFaults
    /\ img_page = 0
    /\ pc = "request"
    /\ ScanIdle
    /\ RasterIdle
    /\ img_caller = "image"
    /\ use_fast_psm = FALSE
    /\ img_pc = "idle"
    /\ rot_i = 0
    /\ fb_i = 0
    /\ passport_mrz_json = NoneResult
    /\ raw_len = 0
    /\ temp_files = {}
    /\ img_log = <<>>
    /\ last_parsed = NoneResult
    /\ img_ret = NoneResult
    /\ page_result = NoneResult

NextSource ==
    \/ CliRequest
    \/ ApiRequest
    \/ ImageRequest
    \/ GetInfo
    \/ PriorityBegin
    \/ PriorityEnd
    \/ DefaultOrder
    \/ ChooseMode
    \/ SeqBegin
    \/ SeqEnd
    \/ Return
    \/ ImgOpen
    \/ FullParse
    \/ FullRaw
    \/ TextOcr
    \/ TextParse
    \/ CropParse
    \/ CropRaw
    \/ DirectOcrBegin
    \/ DirectOcr
    \/ DirectParse
    \/ DirectOcrEnd
    \/ ImageDone

SpecSource == InitSource /\ [][NextSource]_vars

(* get_pdf_info and convert_pdf_page_to_image called on their own, on a    *)
(* document and a page number of any kind, under each set of libraries.    *)
InitRaster ==
    /\ entry = "cli"
    /\ source = "pdf"
    /\ backend \in Backends
    /\ doc_openable \in BOOLEAN
    /\ pdf_pages \in 1..MaxRasterPages
    /\ download = "ok"
    /\ mrz_std = {}
    /\ mrz_fast = {}
    /\ arg_max_pages = None
    /\ arg_start_page = None
    /\ arg_parallel = FALSE
    /\ arg_start_page_only = FALSE
    /\ page_fault = NoFaults
    /\ img_page = 0
    /\ pc = "call"
    /\ ImageIdle
    /\ ScanIdle
    /\ conv_page \in 0..(pdf_pages + 1)
    /\ doc_arg \in (IF PymupdfAvailable(backend) /\ doc_openable
                    THEN {"None", "handle"} ELSE {"None"})
    /\ raster_ok \in BOOLEAN
    /\ conv_ret = "unset"
    /\ info_ret = None
    /\ ResizeIdle

\* get_pdf_info(pdf_path)
CallGetPdfInfo ==
    /\ pc = "call"
    /\ info_ret = None
    /\ info_ret' = GetPdfInfo(backend, doc_openable, pdf_pages)
    /\ UNCHANGED <<request_vars, handle_vars, image_vars, pool_vars, pc,
                   total_pages, pages_to_check, ceiling, start_page,
                   remaining_pages, use_parallel, seq_i, cur_page,
                   found_result, ret, attempts, status, conv_page, doc_arg,
                   raster_ok, conv_ret, resize_vars>>

\* convert_pdf_page_to_image(pdf_path, page_num, dpi, doc=doc)
CallConvert ==
    /\ pc = "call"
    /\ conv_ret = "unset"
    /\ conv_ret' \in ConvertPdfPageToImage(backend, doc_openable, pdf_pages,
                                           conv_page, doc_arg, raster_ok)
    /\ UNCHANGED <<request_vars, handle_vars, image_vars, pool_vars, pc,
                   total_pages, pages_to_check, ceiling, start_page,
                   remaining_pages, use_parallel, seq_i, cur_page,
                   found_result, ret, attempts, status, conv_page, doc_arg,
                   raster_ok, info_ret, resize_vars>>

NextRaster ==
    \/ CallGetPdfInfo
    \/ CallConvert

SpecRaster == InitRaster /\ [][NextRaster]_vars

(* The size policy of _process_single_page (lines 339-349) on a rendered  *)
(* page of any size, under any configured bound.                           *)
InitResize ==
    /\ entry = "cli"
    /\ pdf_pages = 1
    /\ mrz_std = {}
    /\ mrz_fast = {}
    /\ arg_max_pages = None
    /\ arg_start_page = None
    /\ arg_parallel = FALSE
    /\ arg_start_page_only = FALSE
    /\ page_fault = NoFaults
    /\ PlainDocument
    /\ pc = "resize"
    /\ ImageIdle
    /\ ScanIdle
    /\ conv_page = 0
    /\ doc_arg = "None"
    /\ raster_ok = TRUE
    /\ conv_ret = "unset"
    /\ info_ret = None
    /\ img_width \in 1..MaxEdge
    /\ img_height \in 1..MaxEdge
    /\ max_image_dimension \in 1..MaxDimension
    /\ new_width = 0
    /\ new_height = 0
    /\ resize_ret = "unset"

\* max(img_width, img_height)
MaxDim(w, h) == IF w >= h THEN w ELSE h

\* int(edge * scale_factor) with scale_factor = MAX_IMAGE_DIMENSION / max_dim
\* (lines 344-346): the quotient truncated to whole pixels.  For the sizes
\* explored here the floating-point product truncates to the exact quotient.
ScaledEdge(edge, bound, max_dim) == (edge * bound) \div max_dim

\* Lines 339-349: a raster whose longer edge exceeds the bound is resized
\* to the scaled size; image.resize raises on an edge of 0.
Resize ==
    /\ pc = "resize"
    /\ resize_ret = "unset"
    /\ LET max_dim == MaxDim(img_width, img_height)
       IN IF max_dim > max_image_dimension
          THEN /\ new_width' = ScaledEdge(img_width, max_image_dimension,
                                          max_dim)
               /\ new_height' = ScaledEdge(img_height, max_image_dimension,
                                           max_dim)
               /\ resize_ret' = IF new_width' < 1 \/ new_height' < 1
                                THEN "raise" ELSE "resized"
          ELSE /\ new_width' = img_width
               /\ new_height' = img_height
               /\ resize_ret' = "kept"
    /\ UNCHANGED <<request_vars, handle_vars, image_vars, pool_vars, pc,
                   total_pages, pages_to_check, ceiling, start_page,
                   remaining_pages, use_parallel, seq_i, cur_page,
                   found_result, ret, attempts, status, conv_page, doc_arg,
                   raster_ok, conv_ret, info_ret, img_width, img_height,
                   max_image_dimension>>

NextResize ==
    \/ Resize

SpecResize == InitResize /\ [][NextResize]_vars




(* ======================================================================= *)
(* Properties                                                              *)
(* ======================================================================= *)
IsPrefix(s, t) == Len(s) <= Len(t) /\ \A i \in 1..Len(s) : s[i] = t[i]

PagesOf(att) == [i \in 1..Len(att) |-> att[i].page]

\* The page ceiling the request asks for: the smaller of the page count and
\* max_pages when max_pages is given, the page count otherwise.
GivenCeiling ==
    IF arg_max_pages = None THEN pdf_pages
    ELSE CHOOSE m \in {pdf_pages, arg_max_pages} :
            m <= pdf_pages /\ m <= arg_max_pages

\* The default visiting order for a ceiling c.
DefaultOrderFor(c) ==
    IF c >= 2 THEN [i \in 1..c |-> IF i = 1 THEN 2 ELSE IF i = 2 THEN 1 ELSE i]
    ELSE <<1>>

ValidPriority == arg_start_page # None /\ arg_start_page \in 1..GivenCeiling

Scheduled == pc \in {"mode", "seq", "seq_run", "submit", "as_completed",
                     "iterate", "cancel", "exit_with", "return", "done"}

InProcessPdf == entry = "cli" /\ pc \notin {"request", "get_info"}

NoFutureYet == \A p \in DOMAIN fstate : fstate[p] = "NONE"

\* C1: with no start page, the pages are visited in the order
\* [2, 1, 3, ..., ceiling] (or [1] when the ceiling is 1): this is the
\* schedule, the order the sequential loop processes them (all of them when
\* nothing is found) and the order the parallel mode submits them to the pool.
C1_DefaultPageOrder ==
    (InProcessPdf /\ arg_start_page = None /\ Scheduled) =>
        LET order == DefaultOrderFor(GivenCeiling)
        IN /\ remaining_pages = order
           /\ (seq_i >= 1 => IsPrefix(PagesOf(attempts), order))
           /\ (seq_i >= 1 /\ pc = "done" /\ ret = NoneResult
                 => PagesOf(attempts) = order)
           /\ (pc \in {"as_completed", "iterate"}
                 => PagesOf(attempts) \o queue = order)

C1_Witness ==
    /\ entry = "cli" /\ arg_start_page = None /\ pc = "done"
    /\ pdf_pages = 4 /\ seq_i >= 1
    /\ PagesOf(attempts) = <<2, 1, 3, 4>>

\* C2: a start page within [1, ceiling] is attempted first, on the main
\* thread; while it is being processed nothing else has been attempted or
\* handed to the pool; and when it succeeds it stays the only attempt and its
\* result is the one returned.
C2_PriorityPageFirstAndAlone ==
    (InProcessPdf /\ ValidPriority) =>
        /\ (attempts # <<>> => /\ attempts[1].page = arg_start_page
                               /\ attempts[1].by = "main")
        /\ (pc \in {"priority", "priority_run"}
              => /\ Len(attempts) <= 1
                 /\ NoFutureYet
                 /\ queue = <<>>
                 /\ remaining_pages = <<>>)
        /\ (Scheduled => attempts # <<>>)
        /\ (arg_start_page \in mrz_fast /\ pc # "priority"
              => /\ Len(attempts) = 1
                 /\ NoFutureYet
                 /\ pc \in {"priority_run", "return", "done"}
                 /\ (pc \in {"return", "done"}
                       => Accepted(ret) /\ ret.page_number = arg_start_page))

C2_Witness ==
    /\ entry = "cli" /\ ValidPriority /\ arg_start_page \in mrz_fast
    /\ arg_start_page = 3 /\ mrz_std # {}
    /\ pc = "done" /\ Len(attempts) = 1 /\ status = "success"

IsAscending(s) == \A i \in 1..(Len(s) - 1) : s[i] < s[i + 1]

\* C3: when a valid start page p fails, the remaining schedule is the pages
\* of [1, ceiling] other than p in ascending order, the pages attempted after
\* p are taken from it, and when it is empty the search ends NotFound with p
\* the only page attempted.
C3_RemainingAfterFailedPriority ==
    (InProcessPdf /\ ValidPriority /\ arg_start_page \notin mrz_fast) =>
        /\ (Scheduled /\ GivenCeiling > 1
              => /\ IsAscending(remaining_pages)
                 /\ SeqToSet(remaining_pages)
                      = (1..GivenCeiling) \ {arg_start_page}
                 /\ Len(remaining_pages) = GivenCeiling - 1
                 /\ \A i \in 2..Len(attempts) :
                        attempts[i].page \in SeqToSet(remaining_pages)
                 /\ (seq_i >= 1 =>
                        IsPrefix(Tail(PagesOf(attempts)), remaining_pages)))
        /\ (Scheduled /\ GivenCeiling = 1
              => /\ pc \in {"return", "done"}
                 /\ ret = NoneResult
                 /\ Len(attempts) = 1
                 /\ NoFutureYet
                 /\ (pc = "done" => status = "failure"))

C3_Witness ==
    /\ entry = "cli" /\ arg_start_page = 3 /\ GivenCeiling = 4
    /\ arg_start_page \notin mrz_fast
    /\ pc = "done" /\ seq_i >= 1
    /\ PagesOf(attempts) = <<3, 1, 2, 4>>

\* C4: with start_page_only set and a valid start page that yields no MRZ,
\* the request ends with status failure and no page other than the start
\* page was attempted.
C4_PriorityOnlyEndsNotFound ==
    (arg_start_page_only /\ ValidPriority /\ arg_start_page \notin mrz_fast
        /\ pc = "done")
    => /\ status = "failure"
       /\ \A i \in 1..Len(attempts) : attempts[i].page = arg_start_page

\* C5: the page ceiling is min(total_pages, max_pages) when max_pages is
\* given and total_pages otherwise, and every page attempted or handed to the
\* pool lies in [1, ceiling].
C5_CeilingBoundsEveryAttempt ==
    InProcessPdf =>
        /\ ceiling = GivenCeiling
        /\ total_pages = pdf_pages
        /\ \A i \in 1..Len(attempts) : attempts[i].page \in 1..GivenCeiling
        /\ \A p \in DOMAIN fstate : fstate[p] # "NONE" => p \in 1..GivenCeiling
        /\ SeqToSet(remaining_pages) \subseteq 1..GivenCeiling

C5_Witness ==
    /\ entry = "cli" /\ pc = "done"
    /\ arg_max_pages # None /\ arg_max_pages < pdf_pages
    /\ ret = NoneResult /\ mrz_std # {}
    /\ Len(attempts) = arg_max_pages /\ arg_max_pages >= 2

\* C6: a start page that is out of range (below 1, above the page count or
\* above the ceiling) is dropped without error: the schedule is the default
\* order, every attempt is at the standard tier, the mode follows the usual
\* rule and the request does not end in error.
C6_InvalidPriorityIsIgnored ==
    (InProcessPdf /\ arg_start_page # None /\ ~ValidPriority) =>
        /\ start_page = None
        /\ pc \notin {"priority", "priority_run"}
        /\ \A i \in 1..Len(attempts) : ~attempts[i].fast
        /\ (Scheduled =>
              /\ remaining_pages = DefaultOrderFor(GivenCeiling)
              /\ (seq_i >= 1 => IsPrefix(PagesOf(attempts), remaining_pages)))
        /\ (pc \notin {"order", "mode"} =>
              /\ use_parallel = (arg_parallel /\ GivenCeiling >= 3)
              /\ (seq_i >= 1) = ~use_parallel)
        /\ status # "error"
        /\ (pc = "done" =>
              status = IF \E i \in 1..GivenCeiling : i \in mrz_std
                       THEN "success" ELSE "failure")

C6_Witness ==
    /\ entry = "cli" /\ pc = "done"
    /\ arg_start_page # None /\ arg_start_page >= 1
    /\ arg_start_page <= pdf_pages /\ arg_start_page > GivenCeiling
    /\ arg_start_page \in mrz_fast
    /\ PagesOf(attempts) = <<2, 1, 3>>

\* The attempts that follow the start page's attempt, if there was one.
LaterAttempts ==
    IF start_page # None THEN Tail(attempts) ELSE attempts

\* C7: the remaining pages are processed sequentially exactly when they are
\* fewer than 3 or parallelism is disabled; otherwise all of them are handed
\* to one pool of min(count, 4) threads, and never more than 4 pages are
\* being processed at once.
C7_ModeAndPoolBound ==
    (InProcessPdf /\ remaining_pages # <<>>
        /\ pc \notin {"priority", "priority_run", "order", "mode"}) =>
        LET count == Len(remaining_pages)
            sequential == count < 3 \/ ~arg_parallel
        IN IF sequential
           THEN /\ seq_i >= 1
                /\ NoFutureYet
                /\ max_workers = 0
                /\ \A i \in 1..Len(LaterAttempts) : LaterAttempts[i].by = "main"
           ELSE /\ seq_i = 0
                /\ cur_page = 0
                /\ \A i \in 1..Len(LaterAttempts) : LaterAttempts[i].by = "pool"
                /\ max_workers = (IF count <= 4 THEN count ELSE 4)
                /\ Cardinality(Running) <= max_workers
                /\ Cardinality(Running) <= 4
                /\ (pc # "submit" =>
                      \A p \in SeqToSet(remaining_pages) : fstate[p] # "NONE")

C7_Witness ==
    /\ use_parallel /\ Len(remaining_pages) = 5
    /\ Cardinality(Running) = 4
    /\ queue # <<>> /\ fstate[Head(queue)] = "PENDING"

\* Positions of the schedule whose page carries an MRZ the standard tier
\* accepts.
Hits == {i \in 1..Len(remaining_pages) : remaining_pages[i] \in mrz_std}

\* C8: the sequential loop processes the scheduled pages one at a time in
\* order, returns the result of the first page in that order that succeeds,
\* and processes no page after it.
C8_SequentialFirstSuccess ==
    (InProcessPdf /\ seq_i >= 1) =>
        LET pages == PagesOf(LaterAttempts)
        IN /\ IsPrefix(pages, remaining_pages)
           /\ \A i \in 1..Len(LaterAttempts) : LaterAttempts[i].by = "main"
           /\ NoFutureYet
           /\ (pc = "seq" => Len(pages) = seq_i - 1 /\ cur_page = 0)
           /\ (pc = "seq_run" => Len(pages) = seq_i
                                 /\ cur_page = remaining_pages[seq_i])
           /\ (Hits # {} => Len(pages) <= SetMin(Hits))
           /\ (pc \in {"return", "done"} =>
                 IF Hits = {}
                 THEN ret = NoneResult /\ pages = remaining_pages
                 ELSE /\ Accepted(ret)
                      /\ ret.page_number = remaining_pages[SetMin(Hits)]
                      /\ Len(pages) = SetMin(Hits))

C8_Witness ==
    /\ entry = "cli" /\ seq_i >= 1 /\ pc = "done"
    /\ Len(remaining_pages) = 4
    /\ Hits = {2, 4}
    /\ status = "success"
    /\ Len(attempts) = 2

ParallelOver == use_parallel /\ pc \in {"return", "done"}

C10_ReturnsWithoutWaiting ==
    (use_parallel /\ pc = "exit_with" /\ Accepted(ret)) => ENABLED ExecutorExit

\* C11 as claimed: once a page has yielded Success (a sequential step or the
\* start page returned it, or a pool worker finished with it), no further
\* page attempt begins: the list of attempts begun never grows again.
C11_NoAttemptAfterSuccess ==
    [][(InProcessPdf /\ (first_success # 0 \/ Accepted(ret)))
         => attempts' = attempts]_vars

\* The pages scheduled after the start page's step (all scheduled pages when
\* there is no valid start page).
RestPages ==
    IF ValidPriority THEN (1..GivenCeiling) \ {arg_start_page}
    ELSE 1..GivenCeiling

\* Page p, processed at the given tier, yields an acceptable MRZ.
PageYields(p, fast) ==
    /\ page_fault[p] = "ok"
    /\ p \in (IF fast THEN mrz_fast ELSE mrz_std)

\* The scheduled pages whose attempt yields an acceptable MRZ.
SuccessPages ==
    {p \in RestPages : PageYields(p, FALSE)}
      \cup (IF ValidPriority /\ PageYields(arg_start_page, TRUE)
            THEN {arg_start_page} ELSE {})

AttemptedPages == {attempts[i].page : i \in 1..Len(attempts)}

\* C12: the search ends NotFound only after every scheduled page has been
\* attempted (each exactly once, and in parallel mode every future has
\* finished); and when no scheduled page yields an acceptable MRZ it does end
\* NotFound, which the command line reports as failure.
C12_NotFoundAfterAllAttempted ==
    InProcessPdf =>
        /\ (pc \in {"return", "done"} /\ ret = NoneResult =>
              /\ AttemptedPages = 1..GivenCeiling
              /\ Len(attempts) = GivenCeiling
              /\ (use_parallel =>
                    \A p \in SeqToSet(remaining_pages) : fstate[p] = "FINISHED"))
        /\ (SuccessPages = {} /\ pc \in {"return", "done"} => ret = NoneResult)
        /\ (SuccessPages = {} /\ pc = "done" => status = "failure")

C12_Witness ==
    /\ entry = "cli" /\ pc = "done"
    /\ pdf_pages = 2 /\ mrz_std = {} /\ arg_max_pages = None
    /\ arg_start_page = None
    /\ PagesOf(attempts) = <<2, 1>>
    /\ ret = NoneResult /\ status = "failure"

FaultyPages == {p \in Pages(pdf_pages) : page_fault[p] # "ok"}

\* C13: a page that cannot be rasterized or whose processing raises counts
\* as NotFound for that page only: the request never ends in error, the
\* faulty page's result is None and is never the one returned, a NotFound
\* outcome still means that every scheduled page was attempted, and whenever
\* another scheduled page yields an MRZ the outcome is a Success from such a
\* page.
C13_PageFaultIsLocal ==
    InProcessPdf =>
        /\ status # "error"
        /\ ret.kind \in {"None", "dict"}
        /\ \A p \in FaultyPages : fresult[p] = NoneResult
        /\ (Accepted(ret) => ret.page_number \notin FaultyPages)
        /\ (pc \in {"return", "done"} /\ ret = NoneResult =>
              /\ AttemptedPages = 1..GivenCeiling
              /\ FaultyPages \subseteq AttemptedPages)
        /\ (pc \in {"return", "done"} /\ SuccessPages # {} =>
              /\ Accepted(ret)
              /\ ret.page_number \in SuccessPages)

C13_Witness ==
    /\ entry = "cli" /\ pc = "done" /\ use_parallel
    /\ page_fault[2] = "raises" /\ fstate[2] = "FINISHED"
    /\ 2 \in mrz_std
    /\ attempts[1].page = 2
    /\ Accepted(ret) /\ ret.page_number = 3
    /\ status = "success"

\* C14: whether a request ends in success does not depend on the execution
\* mode: it succeeds exactly when some scheduled page yields an MRZ, and
\* when exactly one scheduled page does, the parallel and the sequential
\* mode both return the Success of that page.
C14_ModesAgreeOnSingleMrz ==
    (InProcessPdf /\ pc = "done") =>
        /\ (status = "success") = (SuccessPages # {})
        /\ (Cardinality(SuccessPages) = 1 =>
              /\ Accepted(ret)
              /\ SuccessPages = {ret.page_number}
              /\ ret.total_pages = pdf_pages)

C14_Witness ==
    /\ entry = "cli" /\ pc = "done" /\ use_parallel
    /\ arg_start_page = None
    /\ Len(remaining_pages) = 4
    /\ SuccessPages = {4}
    /\ Accepted(ret) /\ ret.page_number = 4
    /\ Len(attempts) = 4

\* C15: when two or more scheduled pages yield an MRZ, the parallel mode
\* always returns Success, from one of those pages: the first success the
\* completion loop observes (no future yielded before it held a success).
\* Which of the pages it is depends on the interleaving.
C15_ParallelReturnsObservedMrzPage ==
    (InProcessPdf /\ ParallelOver /\ Cardinality(SuccessPages) >= 2) =>
        /\ Accepted(ret)
        /\ ret.page_number \in SuccessPages
        /\ ret.page_number \in yielded
        /\ \A p \in yielded \ {ret.page_number} : ~Accepted(fresult[p])
        /\ (pc = "done" => status = "success")

C15_Witness ==
    /\ entry = "cli" /\ pc = "done" /\ use_parallel
    /\ remaining_pages = <<2, 1, 3, 4, 5>>
    /\ SuccessPages = {2, 5}
    /\ Accepted(ret) /\ ret.page_number = 5
    /\ fstate[2] = "FINISHED"

(* ----------------------- process_image: claims ------------------------- *)
Desc(e) == <<e.angle, e.region, e.mode>>

Descs(log) == [i \in 1..Len(log) |-> Desc(log[i])]

\* The cascade as the claim lists it.
ClaimedOrder ==
    << <<0, "full", "image_parse">>,
       <<0, "bottom_30", "image_parse">>,
       <<0, "full", "text_parse">>,
       <<0 - 90, "full", "image_parse">>,
       <<90, "full", "image_parse">>,
       <<90, "bottom_30_rotated", "direct_ocr">>,
       <<90, "full_rotated", "direct_ocr">> >>

\* The cascade in full: every rotation's image parse is followed by the
\* re-parse of its text, rotation 0 then reads the bottom region, and the
\* direct OCR pass comes last.  Fast mode leaves rotation 90 out.
FullOrder(fast) ==
    << <<0, "full", "image_parse">>,
       <<0, "full", "text_parse">>,
       <<0, "bottom_30", "image_parse">>,
       <<0 - 90, "full", "image_parse">>,
       <<0 - 90, "full", "text_parse">> >>
    \o (IF fast THEN <<>>
        ELSE << <<90, "full", "image_parse">>,
                <<90, "full", "text_parse">> >>)
    \o << <<90, "bottom_30_rotated", "direct_ocr">>,
          <<90, "full_rotated", "direct_ocr">> >>

InOrder(d, order) == \E k \in 1..Len(order) : order[k] = d

Pos(d, order) == CHOOSE k \in 1..Len(order) : order[k] = d

ImageOver == img_pc \in {"returned", "done"}

C17_AcceptanceRule ==
    LET n == Len(img_log)
        Rule(r) == r.kind = "dict" /\ (r.document_number \/ r.given_name)
    IN /\ (n >= 1 /\ img_log[n].out \in {"accepted", "rejected"} =>
              ((img_log[n].out = "accepted") = Rule(last_parsed)))
       /\ (img_pc \in {"full_raw", "crop_raw"} => Rule(passport_mrz_json))
       /\ (ImageOver /\ img_ret.kind = "dict" => Rule(img_ret))
       /\ (img_pc = "done" /\ img_caller = "page" =>
              /\ (page_result # NoneResult) = Rule(img_ret)
              /\ (page_result # NoneResult =>
                    /\ page_result.document_number = img_ret.document_number
                    /\ page_result.given_name = img_ret.given_name
                    /\ page_result.surname = img_ret.surname))

C17_Witness ==
    /\ img_pc = "done" /\ img_caller = "page"
    /\ page_result.given_name /\ ~page_result.document_number
    /\ ~page_result.surname
    /\ img_log[Len(img_log)].out = "accepted"
    /\ \E i \in 1..Len(img_log) : img_log[i].out = "rejected"

\* C18 as claimed: the cascade stops at the first accepted parse: no attempt
\* is evaluated after an accepted one, and process_image returns that
\* parse's result.
C18_StopsAtFirstAccepted ==
    /\ \A i \in 1..(Len(img_log) - 1) : img_log[i].out # "accepted"
    /\ (ImageOver /\ (\E i \in 1..Len(img_log) : img_log[i].out = "accepted")
          => Accepted(img_ret))

\* C19 as claimed: an attempt that raises is followed by the next attempt
\* of the cascade: nothing is passed over.
C19_ExceptionSkipsNothing ==
    LET order == FullOrder(use_fast_psm)
    IN \A i \in 1..(Len(img_log) - 1) :
          img_log[i].out = "raised" =>
              Pos(Desc(img_log[i + 1]), order)
                  = Pos(Desc(img_log[i]), order) + 1

\* C20 as claimed: process_image evaluates a bounded number of attempts,
\* never the same attempt twice, and returns the first accepted parse when
\* there is one, and None (or an error value) otherwise.
C20_TerminatesWithFirstAccepted ==
    /\ Len(img_log) <= Len(FullOrder(FALSE))
    /\ \A i, j \in 1..Len(img_log) :
          i # j => Desc(img_log[i]) # Desc(img_log[j])
    /\ (ImageOver =>
          IF \E i \in 1..Len(img_log) : img_log[i].out = "accepted"
          THEN LET first == SetMin({i \in 1..Len(img_log) :
                                      img_log[i].out = "accepted"})
               IN Accepted(img_ret) /\ first = Len(img_log)
          ELSE img_ret \in {NoneResult, ErrorDict})

\* C21: process_image returns an error value exactly when the image cannot
\* be opened (before any attempt); once the attempts have begun, whatever
\* they do - every one of them raising included - it returns an accepted
\* parse or None.
C21_FailedOnlyOutsideAttempts ==
    ImageOver =>
        /\ (img_ret = ErrorDict) = (~decodable)
        /\ (~decodable => img_log = <<>>)
        /\ (img_log # <<>> => img_ret = NoneResult \/ Accepted(img_ret))
        /\ ((\A i \in 1..Len(img_log) : img_log[i].out # "accepted")
              /\ decodable => img_ret = NoneResult)

C21_Witness ==
    /\ ImageOver /\ decodable /\ ~use_fast_psm
    /\ Len(img_log) = 5
    /\ \A i \in 1..Len(img_log) : img_log[i].out = "raised"
    /\ img_ret = NoneResult

\* C22: process_pdf's own document handle is never given to a pool worker;
\* a worker that is running holds a handle it opened itself, which is closed
\* by the time its work item has finished, and a work item that has not
\* run has opened none.
C22_HandlePerThread ==
    \A p \in AllPages :
        /\ future_doc[p] # "main"
        /\ (fstate[p] = "RUNNING" => own_handle[p] = "open")
        /\ (fstate[p] = "FINISHED" => own_handle[p] = "closed")
        /\ (fstate[p] \in {"NONE", "PENDING", "CANCELLED"}
              => own_handle[p] = "none")

C22_Witness ==
    /\ doc = "open"
    /\ \E p \in AllPages : fstate[p] = "RUNNING" /\ own_handle[p] = "open"
    /\ \E q \in AllPages : fstate[q] = "FINISHED" /\ own_handle[q] = "closed"

\* C23: once process_image has returned, no temporary file it created (the
\* rotated image, the bottom crop) is left on disk.
C23_NoTempFileLeft ==
    ImageOver => temp_files \cap {"full", "bottom"} = {}

\* C24: once _process_single_page has returned, its temporary page file is
\* gone and nothing but the inspection file of page 3 is left on disk.
C24_OnlyInspectionFileLeft ==
    (img_caller = "page" /\ img_pc \in {"done", "no_page"}) =>
        /\ "page" \notin temp_files
        /\ temp_files \subseteq
              (IF img_page = InspectPage THEN {"inspection"} ELSE {})

\* The request has been answered: the core has returned and its status was
\* given, or the download of /scan/url failed.
RequestOver ==
    IF source = "image" THEN img_pc = "done" \/ pc = "done" ELSE pc = "done"

\* C25: every request, of any entry point, for an image or a document, is
\* answered: it cannot stop before it has a status, the status it ends with
\* is one of success, failure and error, and it is set once.
C25_ExactlyOneStatus ==
    /\ status \in {"none", "success", "failure", "error"}
    /\ (RequestOver = (status # "none"))
    /\ (~RequestOver => ENABLED NextSource)

C25_Witness ==
    /\ RequestOver /\ entry = "scan_url" /\ source = "pdf"
    /\ status = "error"

\* The Outcome of the core on the request's document: Success when a
\* scheduled page yields an acceptable MRZ, NotFound otherwise (the documents
\* of Spec can all be opened, so it is never Failed).
DocumentOutcome == IF SuccessPages # {} THEN "Success" ELSE "NotFound"

\* C26: whichever entry point takes the request, its status is success
\* exactly when the Outcome is Success, failure exactly when it is NotFound,
\* and error exactly when it is Failed.
C26_StatusFollowsOutcome ==
    pc = "done" =>
        /\ (status = "success") = (DocumentOutcome = "Success")
        /\ (status = "failure") = (DocumentOutcome = "NotFound")
        /\ (status = "error") = (DocumentOutcome = "Failed")

\* C27: a PDF uploaded to /scan/file is answered with status success when a
\* page within the ceiling carries an MRZ and with failure otherwise (HTTP
\* 200 either way), as the command line answers.
C27_ScanFileAnswersLikeCli ==
    (entry = "scan_file" /\ pc = "done") =>
        /\ status \in {"success", "failure"}
        /\ status = CliStatus(IF SuccessPages # {}
                              THEN MrzDict(TRUE, TRUE, TRUE) ELSE NoneResult)

\* C28: a source that cannot be opened - an image that cannot be decoded, a
\* document no installed library can open - ends the request with status
\* error.
C28_UnopenableSourceIsError ==
    (RequestOver /\ ~(IF source = "image" THEN decodable ELSE doc_openable))
        => status = "error"

\* C29: convert_pdf_page_to_image answers a page number outside the
\* document, and a page it cannot rasterize, with None: it does not raise
\* and gives no image.
C29_ConvertGivesNoneOnFailure ==
    (conv_ret # "unset"
       /\ (conv_page \notin 1..pdf_pages \/ ~raster_ok \/ ~doc_openable))
        => conv_ret = "None"

\* C30: get_pdf_info returns a page count of at least 1, and 1 when the
\* count cannot be obtained; it does not raise.
C30_InfoIsPositiveCount ==
    info_ret # None =>
        /\ info_ret >= 1
        /\ (~doc_openable => info_ret = 1)

\* C31: the attempt on a valid start page, which is the first attempt of the
\* search, is made at the fast tier; every other attempt, by the main thread
\* or by a pool worker, is made at the standard tier.
C31_TierRule ==
    InProcessPdf =>
        \A i \in 1..Len(attempts) :
            attempts[i].fast =
                (ValidPriority /\ i = 1 /\ attempts[i].page = arg_start_page
                   /\ attempts[i].by = "main")

C31_Witness ==
    /\ InProcessPdf /\ ValidPriority
    /\ Len(attempts) >= 3
    /\ attempts[1].fast /\ attempts[1].page = arg_start_page
    /\ \E i \in 2..Len(attempts) : attempts[i].by = "pool" /\ ~attempts[i].fast

\* C32: no page is attempted twice in one search, the attempt on the start
\* page and the attempts on the remaining pages counted together.
C32_EachPageAtMostOnce ==
    InProcessPdf =>
        \A i, j \in 1..Len(attempts) :
            attempts[i].page = attempts[j].page => i = j

C32_Witness ==
    /\ InProcessPdf /\ pc = "done" /\ ValidPriority
    /\ ret = NoneResult
    /\ GivenCeiling >= 3
    /\ Len(attempts) = GivenCeiling
    /\ attempts[1].page = arg_start_page

\* The scenario: 4 pages, an MRZ on page 3 only, max_pages = 5, no start
\* page, parallel.
Scenario ==
    /\ pdf_pages = 4 /\ mrz_std = {3} /\ arg_max_pages = 5
    /\ arg_start_page = None /\ arg_parallel

LastAttempt == img_log[Len(img_log)]

\* C34 as claimed: the text re-parse is made exactly when the image parse of
\* the full image was rejected and the recognized text has at least 10
\* characters.
C34_ReparseFromTenCharacters ==
    /\ [](img_pc \in {"text_ocr", "text_parse"} =>
            /\ LastAttempt.mode = "image_parse" /\ LastAttempt.region = "full"
            /\ LastAttempt.out = "rejected")
    /\ [][img_pc = "text_ocr" =>
            ((img_pc' = "text_parse") = (raw_len' >= MinTextLen))]_vars
    /\ [][(img_pc = "rotation" /\ Len(img_log') > Len(img_log)
              /\ img_log'[Len(img_log')].out = "rejected")
            => img_pc' = "text_ocr"]_vars

\* C34: the text re-parse is made exactly when the image parse of the full
\* image was rejected (neither accepted nor left by an exception) and the
\* recognized text has more than 10 characters: 11 characters trigger it,
\* 10 do not.
C34_ReparseAboveTenCharacters ==
    /\ [](img_pc \in {"text_ocr", "text_parse"} =>
            /\ LastAttempt.mode = "image_parse" /\ LastAttempt.region = "full"
            /\ LastAttempt.out = "rejected")
    /\ [][img_pc = "text_ocr" =>
            ((img_pc' = "text_parse") = (raw_len' > MinTextLen))]_vars
    /\ [][(img_pc = "rotation" /\ Len(img_log') > Len(img_log)
              /\ img_log'[Len(img_log')].out = "rejected")
            => img_pc' = "text_ocr"]_vars

C34_Witness ==
    /\ img_log # <<>>
    /\ raw_len = MinTextLen
    /\ LastAttempt.mode = "text_parse" /\ LastAttempt.out = "no_text"
    /\ img_pc = "crop"

\* C35: a raster whose longer edge is within the bound reaches the cascade
\* as it is; a larger one is scaled by bound / longer edge on both edges,
\* truncated to whole pixels: the longer edge ends within the bound and both
\* edges are at least 1.
C35_ResizeKeepsRasterValid ==
    resize_ret # "unset" =>
        LET max_dim == MaxDim(img_width, img_height)
        IN IF max_dim <= max_image_dimension
           THEN /\ resize_ret = "kept"
                /\ new_width = img_width /\ new_height = img_height
           ELSE /\ resize_ret = "resized"
                /\ new_width = ScaledEdge(img_width, max_image_dimension,
                                          max_dim)
                /\ new_height = ScaledEdge(img_height, max_image_dimension,
                                           max_dim)
                /\ MaxDim(new_width, new_height) <= max_image_dimension
                /\ new_width >= 1 /\ new_height >= 1

\* C36: at every point of a cascade the only temporary raster file of the
\* cascade on disk is the one of the attempt being evaluated: the rotated
\* full image is gone when the bottom-crop attempt begins, the crop is alone
\* while its raw text is read, and nothing is on disk between rotations.
C36_OnlyCurrentAttemptArtifact ==
    LET artifacts == temp_files \cap {"full", "bottom"}
    IN /\ Cardinality(artifacts) <= 1
       /\ img_pc = "crop" => artifacts = {}
       /\ img_pc = "crop_raw" => artifacts = {"bottom"}
       /\ img_pc = "rotation" => artifacts = {}

\* C37: process_pdf holds at most one open document handle at any time and
\* none once it returns, whichever way it returns; a page worker's call of
\* convert_pdf_page_to_image has closed the handle it opened by the time
\* the worker has finished.
C37_HandlesClosed ==
    /\ open_handles \in {0, 1}
    /\ (doc = "open") = (open_handles = 1)
    /\ pc \in {"return", "done"} => open_handles = 0
    /\ \A p \in AllPages : fstate[p] = "FINISHED" => own_handle[p] # "open"

C37_Witness ==
    /\ pc = "done"
    /\ doc = "closed"
    /\ use_parallel
    /\ ret = NoneResult
    /\ \E p \in AllPages : own_handle[p] = "closed"

\* The search without a start page returns Success: a page within the
\* ceiling yields an MRZ at the standard tier.
FoundWithoutPriority == mrz_std \cap Pages(GivenCeiling) # {}

\* C38: a search with a valid start page returns Success whenever the search
\* of the same document without a start page does.
C38_PriorityNeverLosesResult ==
    (InProcessPdf /\ pc = "done" /\ ValidPriority /\ FoundWithoutPriority)
        => Accepted(ret)

\* C39: when a parallel search returns, with Success or NotFound, no page
\* worker is running: every submitted page has finished or was cancelled
\* before it started, a finished worker has removed its temporary page
\* raster, and a cancelled page never created one.
C39_NoWorkerOutlivesSearch ==
    (use_parallel /\ pc \in {"return", "done"}) =>
        /\ Running = {}
        /\ \A p \in SeqToSet(remaining_pages) :
              /\ fstate[p] \in {"FINISHED", "CANCELLED"}
              /\ (fstate[p] = "FINISHED" => page_file[p] = "removed")
              /\ (fstate[p] = "CANCELLED" => page_file[p] = "none")

C39_Witness ==
    /\ use_parallel /\ pc = "done" /\ Accepted(ret)
    /\ \E p \in SeqToSet(remaining_pages) : fstate[p] = "CANCELLED"
    /\ \E p \in SeqToSet(remaining_pages) :
          /\ fstate[p] = "FINISHED" /\ page_file[p] = "removed"
          /\ p \notin yielded

\* C40: once an endpoint has answered, the temporary file it stored the
\* upload or the download in is gone, whether the answer is success,
\* failure, a processing error or a failed download of /scan/url.
C40_ApiTempFileRemoved ==
    (entry # "cli" /\ status # "none") => temp_path # "on_disk"

====
